---------------------------- MODULE Spec2Model ----------------------------
(***************************************************************************)
(* Model of kjx98/go-wasm: the LEB128 varint codec (varuint32.bytes,       *)
(* uvarint, varint), the decoder primitives and sub-decoders used by the   *)
(* validating re-encoder, and ValModule (ReadValModule, readSection,       *)
(* Validate, Bytes).                                                       *)
(*                                                                         *)
(* Integers keep their width: a uint32 is the pair of its 16-bit halves,   *)
(* an int64 a bit vector (a function from 0..63 to {0,1}), so that shifts, *)
(* masks and truncation are the machine's.  Bytes are naturals 0..255.     *)
(***************************************************************************)
EXTENDS Integers, Sequences, FiniteSets, TLC

\* ------------------------------------------------------------------ bounds
\* Longest byte source handed to uvarint in the codec specification.
MaxSrcLen == 7
\* Most sections in an input module.
MaxSections == 5
\* Spare capacity, beyond its length, that the caller's input slice may have.
MaxCapSlack == 16

\* ------------------------------------------------------ fixed-width words
Pow2(k) == 2 ^ k

\* bit j of a natural
Bit(n, j) == (n \div Pow2(j)) % 2

\* a | b on naturals
RECURSIVE BitOr(_, _)
BitOr(a, b) ==
    IF a = 0 THEN b
    ELSE IF b = 0 THEN a
    ELSE (IF a % 2 = 1 \/ b % 2 = 1 THEN 1 ELSE 0) + 2 * BitOr(a \div 2, b \div 2)

\* A uint32 is <<hi, lo>>, its two 16-bit halves.
Half == Pow2(16)

U32Zero == <<0, 0>>

\* uint32(n) for a natural below 2^31
U32(n) == <<n \div Half, n % Half>>

\* uint32(b) << s for a byte b; bits shifted past bit 31 are lost, and a
\* shift of 32 or more leaves 0 (Go semantics)
Shl32(b, s) ==
    IF s >= 32 THEN U32Zero
    ELSE IF s >= 16 THEN <<(b * Pow2(s - 16)) % Half, 0>>
    ELSE <<(b * Pow2(s)) \div Half, (b * Pow2(s)) % Half>>

\* x | y
Or32(x, y) == <<BitOr(x[1], y[1]), BitOr(x[2], y[2])>>

\* x >> 7
Shr7(x) == <<x[1] \div 128, (x[2] \div 128) + (x[1] % 128) * 512>>

\* x & 0x7f, as a byte
Low7(x) == x[2] % 128

\* x & 0x1
Low1(x) == x[2] % 2

\* The largest value the checker's integers hold; every uint32 at or above it
\* converts to it.  The converted values are only compared with, or counted
\* down by, lengths of in-memory sequences, all far below it.
IntSat == (Pow2(30) - 1) + Pow2(30)

\* int(x) / int64(x) of a uint32
ToInt(x) == IF x[1] >= 32768 THEN IntSat ELSE x[1] * Half + x[2]

\* An int64 is a bit vector: a function from bit positions 0..63 to {0,1}.
W64 == 0..63

RECURSIVE LowBits(_, _)
LowBits(x, k) == IF k = 0 THEN x[0] ELSE x[k] * Pow2(k) + LowBits(x, k - 1)

\* ------------------------------------------------------------- byte readers
\* A reader over the byte sequence s is [pos, N]: pos bytes of s are consumed;
\* N is the io.LimitedReader budget, or -1 for the bare underlying reader.
Unlimited == -1

Rd(p, n) == [pos |-> p, N |-> n]

\* r.Read(buf) with len(buf) = 1: io.LimitedReader returns EOF once N <= 0,
\* bytes.Reader returns EOF at the end of the slice.
ReadByte(s, st) ==
    IF st.N = 0 \/ st.pos >= Len(s)
    THEN [err |-> "EOF", b |-> 0, st |-> st]
    ELSE [err |-> "nil", b |-> s[st.pos + 1],
          st |-> Rd(st.pos + 1, IF st.N = Unlimited THEN Unlimited ELSE st.N - 1)]

\* ------------------------------------------------------------ varint codec
MaxVarU32Len == 5

\* Mutation: the continuation test is made before the shift, so the value
\* itself (not what is left of it) decides whether another byte follows.
RECURSIVE bytesLoop_mutTestBeforeShift(_, _, _)
bytesLoop_mutTestBeforeShift(v, i, ret) ==
    IF i < MaxVarU32Len
    THEN IF v = U32Zero
         THEN Append(ret, Low7(v))
         ELSE bytesLoop_mutTestBeforeShift(Shr7(v), i + 1, Append(ret, Low7(v) + 128))
    ELSE ret

\* varuint32.bytes: the loop body; ret is ret[:i] so far.
RECURSIVE bytesLoop(_, _, _)
bytesLoop(v, i, ret) ==
    IF i < MaxVarU32Len
    THEN IF Shr7(v) = U32Zero
         THEN Append(ret, Low7(v))
         ELSE bytesLoop(Shr7(v), i + 1, Append(ret, Low7(v) + 128))
    ELSE ret

\* varuint32.bytes()
bytes(v) == bytesLoop(v, 0, <<>>)

\* Mutation: the result drops the group carried by the terminating byte.
RECURSIVE uvarintLoop_mutDropLast(_, _, _, _, _)
uvarintLoop_mutDropLast(s, st, x, sh, i) ==
    LET rd == ReadByte(s, st) IN
    IF rd.err # "nil"
    THEN [v |-> U32Zero, n |-> i, err |-> rd.err, st |-> rd.st]
    ELSE IF rd.b < 128
         THEN IF i > 4 \/ (i = 4 /\ rd.b > 15)
              THEN [v |-> U32Zero, n |-> i, err |-> "errOverflow", st |-> rd.st]
              ELSE [v |-> x, n |-> i + 1, err |-> "nil", st |-> rd.st]
         ELSE uvarintLoop_mutDropLast(s, rd.st, Or32(x, Shl32(rd.b % 128, sh)), sh + 7, i + 1)

\* uvarint: the loop; x, sh (s in the source) and i are its locals.
RECURSIVE uvarintLoop(_, _, _, _, _)
uvarintLoop(s, st, x, sh, i) ==
    LET rd == ReadByte(s, st) IN
    IF rd.err # "nil"
    THEN [v |-> U32Zero, n |-> i, err |-> rd.err, st |-> rd.st]
    ELSE IF rd.b < 128
         THEN IF i > 4 \/ (i = 4 /\ rd.b > 15)
              THEN [v |-> U32Zero, n |-> i, err |-> "errOverflow", st |-> rd.st]
              ELSE [v |-> Or32(x, Shl32(rd.b, sh)), n |-> i + 1, err |-> "nil", st |-> rd.st]
         ELSE uvarintLoop(s, rd.st, Or32(x, Shl32(rd.b % 128, sh)), sh + 7, i + 1)

\* uvarint(r): value, bytes read, error, and the reader afterwards
uvarint(s, st) == uvarintLoop(s, st, U32Zero, 0, 0)

\* ---- signed varint (64 bit)
I64Zero == [j \in W64 |-> 0]

\* int64(g) << s for a 7-bit group g
Shl64(g, s) == [j \in W64 |-> IF j >= s /\ j - s <= 6 THEN Bit(g, j - s) ELSE 0]

\* int64(int8(b)) << s for a terminating byte b < 0x80 whose bit 6, when set,
\* has been copied into bit 7 (b |= 0x80): bits 7.. of the int64 repeat bit 6.
SextShl64(b, s) ==
    [j \in W64 |-> IF j < s THEN 0
                   ELSE IF j - s <= 6 THEN Bit(b, j - s) ELSE Bit(b, 6)]

Or64(x, y) == [j \in W64 |-> IF x[j] = 1 \/ y[j] = 1 THEN 1 ELSE 0]

\* varint: the loop
RECURSIVE varintLoop(_, _, _, _, _)
varintLoop(s, st, x, sh, i) ==
    LET rd == ReadByte(s, st) IN
    IF rd.err # "nil"
    THEN [v |-> I64Zero, n |-> i, err |-> rd.err, st |-> rd.st]
    ELSE IF rd.b < 128
         THEN IF i > 9 \/ (i = 9 /\ rd.b > 1)
              THEN [v |-> I64Zero, n |-> i, err |-> "errOverflow", st |-> rd.st]
              ELSE [v |-> Or64(x, SextShl64(rd.b, sh)), n |-> i + 1, err |-> "nil", st |-> rd.st]
         ELSE varintLoop(s, rd.st, Or64(x, Shl64(rd.b % 128, sh)), sh + 7, i + 1)

\* varint(r)
varint(s, st) == varintLoop(s, st, I64Zero, 0, 0)

\* int32(vv) of an int64, as an integer
ToInt32(x) == (LowBits(x, 30) - x[31] * 1073741824) - x[31] * 1073741824

\* ------------------------------------------------------ decoder primitives
\* The decoder is [err, st]: the sticky error and the reader it is handed.
\* Every primitive returns [d, v]: the decoder afterwards and the value left
\* in the destination (old, the destination's previous value, when the
\* primitive returns before assigning).  Where a function makes several
\* reads in a row, its steps are local operators, the last step first; each
\* takes the results of the reads made before it.
Dec(e, st) == [err |-> e, st |-> st]

Min(a, b) == IF a < b THEN a ELSE b

\* decoder.readVarU7
readVarU7(s, d, old) ==
    LET got(r) ==
            [d |-> Dec(IF r.err = "nil" /\ r.n # 1 THEN "errMalform" ELSE r.err, r.st),
             v |-> r.v]
    IN IF d.err # "nil" THEN [d |-> d, v |-> old] ELSE got(uvarint(s, d.st))

\* decoder.readVarU1
readVarU1(s, d, old) == readVarU7(s, d, old)

\* decoder.readVarU32
readVarU32(s, d, old) ==
    LET got(r) == [d |-> Dec(r.err, r.st), v |-> r.v]
    IN IF d.err # "nil" THEN [d |-> d, v |-> old] ELSE got(uvarint(s, d.st))

\* decoder.readVarI7; v is the int32 left in *v
readVarI7(s, d, old) ==
    LET got(r) ==
            [d |-> Dec(IF r.err = "nil" /\ r.n # 1 THEN "errMalform" ELSE r.err, r.st),
             v |-> ToInt32(r.v)]
    IN IF d.err # "nil" THEN [d |-> d, v |-> old] ELSE got(varint(s, d.st))

\* decoder.read with len(buf) = k: one Read call; data are the bytes it
\* stored (the rest of buf keeps its zeros).  io.LimitedReader cuts the
\* request to N and bytes.Reader to what is left of the slice.
read(s, d, k) ==
    IF d.err # "nil" \/ k = 0 THEN [d |-> d, data |-> <<>>]
    ELSE IF d.st.N = 0 \/ d.st.pos >= Len(s)
         THEN [d |-> Dec("EOF", d.st), data |-> <<>>]
         ELSE LET m == IF d.st.N = Unlimited THEN k ELSE Min(k, d.st.N)
                  n == Min(m, Len(s) - d.st.pos)
              IN [d |-> Dec("nil", Rd(d.st.pos + n,
                                      IF d.st.N = Unlimited THEN Unlimited ELSE d.st.N - n)),
                  data |-> SubSeq(s, d.st.pos + 1, d.st.pos + n)]

\* A Go string or []byte of length len whose first Len(data) bytes are data
\* and whose other bytes are zero.
Str(n, data) == [len |-> n, data |-> data]
EmptyStr == Str(0, <<>>)

\* decoder.readString
readString(s, d, old) ==
    LET str(sz, rd) == [d |-> rd.d, v |-> Str(ToInt(sz.v), rd.data)]
        size(sz) == IF sz.d.err # "nil" THEN [d |-> sz.d, v |-> old]
                    ELSE str(sz, read(s, sz.d, ToInt(sz.v)))
    IN IF d.err # "nil" THEN [d |-> d, v |-> old] ELSE size(readVarU32(s, d, U32Zero))

\* string(buf) == lit, for a literal without zero bytes
StrEq(str, lit) == str.len = Len(lit) /\ str.data = lit

\* decoder.readExternalKind
readExternalKind(s, d, old) ==
    LET got(rd) == [d |-> rd.d, v |-> IF Len(rd.data) = 1 THEN rd.data[1] ELSE 0]
    IN IF d.err # "nil" THEN [d |-> d, v |-> old] ELSE got(read(s, d, 1))

\* decoder.readValueType: ValueType(v) is an int8
readValueType(s, d, old) ==
    LET got(r) == [d |-> r.d, v |-> ((r.v + 128) % 256) - 128]
    IN IF d.err # "nil" THEN [d |-> d, v |-> old] ELSE got(readVarI7(s, d, 0))

\* ------------------------------------------------------------ sub-decoders
\* A slice made by make([]T, n) and filled front to back is [n, items]: its
\* length and the elements the loop reached while no error was pending;
\* the elements after them still hold T's zero value.
Slice(n, items) == [n |-> n, items |-> items]
NilSlice == Slice(0, <<>>)

\* ---- Type section
RECURSIVE readValueTypes(_, _, _, _)
readValueTypes(s, d, n, acc) ==
    LET next(e) == readValueTypes(s, e.d, n, Append(acc, e.v))
    IN IF Len(acc) >= n \/ d.err # "nil" THEN [d |-> d, v |-> Slice(n, acc)]
       ELSE next(readValueType(s, d, 0))

FuncType(form, params, results) == [form |-> form, params |-> params, results |-> results]
ZeroFuncType == FuncType(0, NilSlice, NilSlice)

\* decoder.readFuncType
readFuncType(s, d) ==
    LET results(form, ps, rs) == [d |-> rs.d, v |-> FuncType(form.v, ps.v, rs.v)]
        resultCount(form, ps, nr) ==
            IF nr.d.err # "nil" THEN [d |-> nr.d, v |-> FuncType(form.v, ps.v, NilSlice)]
            ELSE results(form, ps, readValueTypes(s, nr.d, ToInt(nr.v), <<>>))
        params(form, ps) == resultCount(form, ps, readVarU32(s, ps.d, U32Zero))
        paramCount(form, np) ==
            IF np.d.err # "nil" THEN [d |-> np.d, v |-> FuncType(form.v, NilSlice, NilSlice)]
            ELSE params(form, readValueTypes(s, np.d, ToInt(np.v), <<>>))
        formRead(form) == paramCount(form, readVarU32(s, form.d, U32Zero))
    IN IF d.err # "nil" THEN [d |-> d, v |-> ZeroFuncType]
       ELSE formRead(readValueType(s, d, 0))

RECURSIVE readFuncTypes(_, _, _, _)
readFuncTypes(s, d, n, acc) ==
    LET next(e) == readFuncTypes(s, e.d, n, Append(acc, e.v))
    IN IF Len(acc) >= n \/ d.err # "nil" THEN [d |-> d, v |-> Slice(n, acc)]
       ELSE next(readFuncType(s, d))

\* decoder.readTypeSection; old is s.Types before the call
readTypeSection(s, d, old) ==
    LET count(n) == IF n.d.err # "nil" THEN [d |-> n.d, v |-> old]
                    ELSE readFuncTypes(s, n.d, ToInt(n.v), <<>>)
    IN count(readVarU32(s, d, U32Zero))

\* ---- Import section
Limits(f, i, m) == [Flags |-> f, Initial |-> i, Maximum |-> m]
ZeroLimits == Limits(U32Zero, U32Zero, U32Zero)

\* decoder.readResizableLimits
readResizableLimits(s, d) ==
    LET maximum(f, i, m) == [d |-> m.d, v |-> Limits(f.v, i.v, m.v)]
        initial(f, i) ==
            IF Low1(f.v) # 0 THEN maximum(f, i, readVarU32(s, i.d, U32Zero))
            ELSE [d |-> i.d, v |-> Limits(f.v, i.v, U32Zero)]
        flags(f) == initial(f, readVarU32(s, f.d, U32Zero))
    IN IF d.err # "nil" THEN [d |-> d, v |-> ZeroLimits]
       ELSE flags(readVarU32(s, d, U32Zero))

\* The dynamic value of ImportEntry.Typ: tag names its type ("nil" for the
\* nil interface), the other fields hold whichever payload the tag selects.
ZeroTyp == [tag |-> "nil", idx |-> U32Zero, ElemType |-> 0, Limits |-> ZeroLimits,
            ContentType |-> 0, Mutability |-> U32Zero]

\* decoder.readElemType
readElemType(s, d) ==
    IF d.err # "nil" THEN [d |-> d, v |-> 0] ELSE readVarI7(s, d, 0)

\* decoder.readTableType
readTableType(s, d) ==
    LET limits(e, l) ==
            [d |-> l.d, v |-> [ZeroTyp EXCEPT !.tag = "TableType", !.ElemType = e.v, !.Limits = l.v]]
        elem(e) == limits(e, readResizableLimits(s, e.d))
    IN IF d.err # "nil" THEN [d |-> d, v |-> [ZeroTyp EXCEPT !.tag = "TableType"]]
       ELSE elem(readElemType(s, d))

\* decoder.readMemoryType
readMemoryType(s, d) ==
    LET limits(l) == [d |-> l.d, v |-> [ZeroTyp EXCEPT !.tag = "MemoryType", !.Limits = l.v]]
    IN IF d.err # "nil" THEN [d |-> d, v |-> [ZeroTyp EXCEPT !.tag = "MemoryType"]]
       ELSE limits(readResizableLimits(s, d))

\* decoder.readGlobalType
readGlobalType(s, d) ==
    LET mutability(c, m) ==
            [d |-> m.d, v |-> [ZeroTyp EXCEPT !.tag = "GlobalType", !.ContentType = c.v,
                                              !.Mutability = m.v]]
        content(c) == mutability(c, readVarU1(s, c.d, U32Zero))
    IN IF d.err # "nil" THEN [d |-> d, v |-> [ZeroTyp EXCEPT !.tag = "GlobalType"]]
       ELSE content(readValueType(s, d, 0))

FunctionKind == 0
TableKind == 1
MemoryKind == 2
GlobalKind == 3

ImportEntry(m, f, k, t) == [Module |-> m, Field |-> f, Kind |-> k, Typ |-> t]
ZeroImportEntry == ImportEntry(EmptyStr, EmptyStr, 0, ZeroTyp)

\* decoder.readImportEntry
readImportEntry(s, d) ==
    LET typ(m, f, k, t) == [d |-> t.d, v |-> ImportEntry(m.v, f.v, k.v, t.v)]
        index(i) == [d |-> i.d, v |-> [ZeroTyp EXCEPT !.tag = "uint32", !.idx = i.v]]
        kind(m, f, k) ==
            CASE k.v = FunctionKind -> typ(m, f, k, index(readVarU32(s, k.d, U32Zero)))
              [] k.v = TableKind -> typ(m, f, k, readTableType(s, k.d))
              [] k.v = MemoryKind -> typ(m, f, k, readMemoryType(s, k.d))
              [] k.v = GlobalKind -> typ(m, f, k, readGlobalType(s, k.d))
              [] OTHER -> [d |-> Dec("errInvalidExternalKind", k.d.st),
                           v |-> ImportEntry(m.v, f.v, k.v, ZeroTyp)]
        field(m, f) == kind(m, f, readExternalKind(s, f.d, 0))
        modName(m) == field(m, readString(s, m.d, EmptyStr))
    IN IF d.err # "nil" THEN [d |-> d, v |-> ZeroImportEntry]
       ELSE modName(readString(s, d, EmptyStr))

RECURSIVE readImportEntries(_, _, _, _)
readImportEntries(s, d, n, acc) ==
    LET next(e) == readImportEntries(s, e.d, n, Append(acc, e.v))
    IN IF Len(acc) >= n \/ d.err # "nil" THEN [d |-> d, v |-> Slice(n, acc)]
       ELSE next(readImportEntry(s, d))

\* decoder.readImportSection
readImportSection(s, d, old) ==
    LET count(n) == IF n.d.err # "nil" THEN [d |-> n.d, v |-> old]
                    ELSE readImportEntries(s, n.d, ToInt(n.v), <<>>)
    IN count(readVarU32(s, d, U32Zero))

\* ---- Function section
RECURSIVE readTypeIndexes(_, _, _, _)
readTypeIndexes(s, d, n, acc) ==
    LET next(e) == readTypeIndexes(s, e.d, n, Append(acc, e.v))
    IN IF Len(acc) >= n \/ d.err # "nil" THEN [d |-> d, v |-> Slice(n, acc)]
       ELSE next(readVarU32(s, d, U32Zero))

\* decoder.readFunctionSection
readFunctionSection(s, d, old) ==
    LET count(n) == IF n.d.err # "nil" THEN [d |-> n.d, v |-> old]
                    ELSE readTypeIndexes(s, n.d, ToInt(n.v), <<>>)
    IN count(readVarU32(s, d, U32Zero))

\* ---- Export section
ExportEntry(f, k, i) == [Field |-> f, Kind |-> k, Index |-> i]
ZeroExportEntry == ExportEntry(EmptyStr, 0, U32Zero)

\* decoder.readExportEntry
readExportEntry(s, d) ==
    LET index(f, k, i) == [d |-> i.d, v |-> ExportEntry(f.v, k.v, i.v)]
        kind(f, k) == index(f, k, readVarU32(s, k.d, U32Zero))
        field(f) == kind(f, readExternalKind(s, f.d, 0))
    IN IF d.err # "nil" THEN [d |-> d, v |-> ZeroExportEntry]
       ELSE field(readString(s, d, EmptyStr))

RECURSIVE readExportEntries(_, _, _, _)
readExportEntries(s, d, n, acc) ==
    LET next(e) == readExportEntries(s, e.d, n, Append(acc, e.v))
    IN IF Len(acc) >= n \/ d.err # "nil" THEN [d |-> d, v |-> Slice(n, acc)]
       ELSE next(readExportEntry(s, d))

\* decoder.readExportSection
readExportSection(s, d, old) ==
    LET count(n) == IF n.d.err # "nil" THEN [d |-> n.d, v |-> old]
                    ELSE readExportEntries(s, n.d, ToInt(n.v), <<>>)
    IN count(readVarU32(s, d, U32Zero))

\* ---------------------------------------------------------------- ValModule
\* Strings of the source, as their bytes.
StrMain == <<109, 97, 105, 110>>
StrMemory == <<109, 101, 109, 111, 114, 121>>
StrDebug == <<100, 101, 98, 117, 103>>
StrEthereum == <<101, 116, 104, 101, 114, 101, 117, 109>>

ValueI32 == -1
ValueI64 == -2
ValueF32 == -3
ValueF64 == -4
ValueAnyFunc == -16
ValueFunc == -32
ValueBlock == -64

\* Section identifiers and the magic number: declared outside the files at
\* hand; the values are those of the format (Custom=0 .. Data=11, "\0asm").
UnknownID == 0
TypeID == 1
ImportID == 2
FunctionID == 3
ExportID == 7
StartID == 8
magicWASM == <<0, 97, 115, 109>>

\* funcMap entries, keyed by name
dbgMap ==
    {[name |-> <<112, 114, 105, 110, 116>>, params |-> <<ValueI32, ValueI32>>, results |-> <<>>],  \* print
     [name |-> <<112, 114, 105, 110, 116, 77, 101, 109>>, params |-> <<ValueI32, ValueI32>>, results |-> <<>>],  \* printMem
     [name |-> <<112, 114, 105, 110, 116, 77, 101, 109, 72, 101, 120>>, params |-> <<ValueI32, ValueI32>>, results |-> <<>>],  \* printMemHex
     [name |-> <<112, 114, 105, 110, 116, 83, 116, 111, 114, 97, 103, 101>>, params |-> <<ValueI32>>, results |-> <<>>],  \* printStorage
     [name |-> <<112, 114, 105, 110, 116, 83, 116, 111, 114, 97, 103, 101, 72, 101, 120>>, params |-> <<ValueI32>>, results |-> <<>>]}  \* printStorageHex

ethMap ==
    {[name |-> <<102, 105, 110, 105, 115, 104>>, params |-> <<ValueI32, ValueI32>>, results |-> <<>>],  \* finish
     [name |-> <<114, 101, 118, 101, 114, 116>>, params |-> <<ValueI32, ValueI32>>, results |-> <<>>],  \* revert
     [name |-> <<103, 101, 116, 65, 100, 100, 114, 101, 115, 115>>, params |-> <<ValueI32>>, results |-> <<>>],  \* getAddress
     [name |-> <<103, 101, 116, 69, 120, 116, 101, 114, 110, 97, 108, 66, 97, 108, 97, 110, 99, 101>>, params |-> <<ValueI32, ValueI32>>, results |-> <<>>],  \* getExternalBalance
     [name |-> <<115, 116, 111, 114, 97, 103, 101, 83, 116, 111, 114, 101>>, params |-> <<ValueI32, ValueI32>>, results |-> <<>>],  \* storageStore
     [name |-> <<115, 116, 111, 114, 97, 103, 101, 76, 111, 97, 100>>, params |-> <<ValueI32, ValueI32>>, results |-> <<>>],  \* storageLoad
     [name |-> <<103, 101, 116, 67, 97, 108, 108, 101, 114>>, params |-> <<ValueI32>>, results |-> <<>>],  \* getCaller
     [name |-> <<103, 101, 116, 84, 120, 79, 114, 105, 103, 105, 110>>, params |-> <<ValueI32>>, results |-> <<>>],  \* getTxOrigin
     [name |-> <<108, 111, 103>>, params |-> <<ValueI32, ValueI32, ValueI32, ValueI32, ValueI32, ValueI32, ValueI32>>, results |-> <<>>],  \* log
     [name |-> <<115, 101, 108, 102, 68, 101, 115, 116, 114, 117, 99, 116>>, params |-> <<ValueI32>>, results |-> <<>>],  \* selfDestruct
     [name |-> <<117, 115, 101, 71, 97, 115>>, params |-> <<ValueI64>>, results |-> <<>>],  \* useGas
     [name |-> <<103, 101, 116, 67, 97, 108, 108, 86, 97, 108, 117, 101>>, params |-> <<ValueI32>>, results |-> <<>>],  \* getCallValue
     [name |-> <<103, 101, 116, 67, 97, 108, 108, 68, 97, 116, 97, 83, 105, 122, 101>>, params |-> <<>>, results |-> <<ValueI32>>],  \* getCallDataSize
     [name |-> <<99, 97, 108, 108, 68, 97, 116, 97, 67, 111, 112, 121>>, params |-> <<ValueI32, ValueI32, ValueI32>>, results |-> <<>>],  \* callDataCopy
     [name |-> <<103, 101, 116, 67, 111, 100, 101, 83, 105, 122, 101>>, params |-> <<>>, results |-> <<ValueI32>>],  \* getCodeSize
     [name |-> <<99, 111, 100, 101, 67, 111, 112, 121>>, params |-> <<ValueI32, ValueI32, ValueI32>>, results |-> <<>>],  \* codeCopy
     [name |-> <<103, 101, 116, 71, 97, 115, 76, 101, 102, 116>>, params |-> <<>>, results |-> <<ValueI64>>],  \* getGasLeft
     [name |-> <<103, 101, 116, 66, 108, 111, 99, 107, 71, 97, 115, 76, 105, 109, 105, 116>>, params |-> <<>>, results |-> <<ValueI64>>],  \* getBlockGasLimit
     [name |-> <<103, 101, 116, 84, 120, 71, 97, 115, 80, 114, 105, 99, 101>>, params |-> <<ValueI32>>, results |-> <<>>],  \* getTxGasPrice
     [name |-> <<103, 101, 116, 66, 108, 111, 99, 107, 78, 117, 109, 98, 101, 114>>, params |-> <<>>, results |-> <<ValueI64>>],  \* getBlockNumber
     [name |-> <<103, 101, 116, 66, 108, 111, 99, 107, 84, 105, 109, 101, 115, 116, 97, 109, 112>>, params |-> <<>>, results |-> <<ValueI64>>]}  \* getBlockTimestamp

\* element i (from 1) of a slice
At(sl, i, zero) == IF i <= Len(sl.items) THEN sl.items[i] ELSE zero

\* Mutation: the lengths are not compared, only the elements of rv.
eqValues_mutPrefix(lv, rv) ==
    \A i \in 1..Len(rv) : At(lv, i, 0) = rv[i]

\* eqValues(lv, rv): lv a decoded slice, rv a table entry
eqValues(lv, rv) ==
    lv.n = Len(rv) /\ \A i \in 1..Len(rv) : At(lv, i, 0) = rv[i]

\* the closure verify of solveImport
verify(mm, fn, typ) ==
    /\ \E sig \in mm : StrEq(fn, sig.name)
    /\ \A sig \in mm : StrEq(fn, sig.name) =>
           eqValues(typ.params, sig.params) /\ eqValues(typ.results, sig.results)

\* solveImport
solveImport(modName, fn, typ) ==
    IF StrEq(modName, StrDebug) THEN verify(dbgMap, fn, typ)
    ELSE IF ~StrEq(modName, StrEthereum) THEN FALSE
    ELSE verify(ethMap, fn, typ)

\* ValModule.findExport: the position (from 1) of the first export named nam,
\* 0 for nil
findExport(m, nam) ==
    IF \E i \in 1..Len(m.exp) : StrEq(m.exp[i].Field, nam)
    THEN CHOOSE i \in 1..Len(m.exp) :
             /\ StrEq(m.exp[i].Field, nam)
             /\ \A j \in 1..(i - 1) : ~StrEq(m.exp[j].Field, nam)
    ELSE 0

\* Mutation: the import count is not taken off the function index.
getFuncSig_mutNoImportOffset(m, idx) ==
    IF ToInt(idx) >= m.fn.n THEN [kind |-> "nil"]
    ELSE LET tyIdx == ToInt(At(m.fn, ToInt(idx) + 1, U32Zero)) IN
         IF tyIdx >= m.typ.n THEN [kind |-> "panic"]
         ELSE [kind |-> "ok", typ |-> At(m.typ, tyIdx + 1, ZeroFuncType)]

\* ValModule.getFuncSig: "nil", the FuncType, or the run-time panic of an
\* index out of range
getFuncSig(m, idx) ==
    IF ToInt(idx) < m.imp.n THEN [kind |-> "nil"]
    ELSE LET i == ToInt(idx) - m.imp.n IN
         IF i >= m.fn.n THEN [kind |-> "nil"]
         ELSE LET tyIdx == ToInt(At(m.fn, i + 1, U32Zero)) IN
              IF tyIdx >= m.typ.n THEN [kind |-> "panic"]
              ELSE [kind |-> "ok", typ |-> At(m.typ, tyIdx + 1, ZeroFuncType)]

\* The import loop of Validate, from import i on
RECURSIVE validateImports(_, _)
validateImports(m, i) ==
    IF i > m.imp.n THEN "nil"
    ELSE LET imp == At(m.imp, i, ZeroImportEntry) IN
         IF imp.Kind # FunctionKind THEN "errImportNotFunc"
         ELSE IF imp.Typ.tag # "uint32" THEN "errImportFunc"
         ELSE IF ToInt(imp.Typ.idx) >= m.typ.n THEN "errImportFunc"
         ELSE IF ~solveImport(imp.Module, imp.Field,
                              At(m.typ, ToInt(imp.Typ.idx) + 1, ZeroFuncType))
              THEN "errImportFunc"
         ELSE validateImports(m, i + 1)

\* The "memory" and import predicates of Validate
validateMemory(m) ==
    LET e == findExport(m, StrMemory) IN
    IF e = 0 THEN "errExpMiss"
    ELSE IF m.exp[e].Kind # MemoryKind \/ m.exp[e].Index # U32Zero THEN "errExpError"
    ELSE validateImports(m, 1)

\* Mutation: a Custom section is an error in every mode.
Validate_mutCustomAnyMode(m) ==
    IF m.startEntry THEN "errHasStart"
    ELSE IF m.bCustom THEN "errHasCustom"
    ELSE IF Len(m.exp) # 2 THEN "errExports"
    ELSE LET e == findExport(m, StrMain) IN
         IF e = 0 THEN "errExpMiss"
         ELSE IF m.exp[e].Kind # FunctionKind THEN "errExpError"
         ELSE LET sig == getFuncSig(m, m.exp[e].Index) IN
              IF sig.kind = "panic" THEN "panic"
              ELSE IF sig.kind = "nil" THEN "errExpError"
              ELSE IF sig.typ.params.n # 0 \/ sig.typ.results.n # 0 THEN "errExpError"
              ELSE validateMemory(m)

\* Mutation: the number of retained exports is not tested.
Validate_mutNoCount(m) ==
    IF m.startEntry THEN "errHasStart"
    ELSE IF m.OnlyValidate /\ m.bCustom THEN "errHasCustom"
    ELSE LET e == findExport(m, StrMain) IN
         IF e = 0 THEN "errExpMiss"
         ELSE IF m.exp[e].Kind # FunctionKind THEN "errExpError"
         ELSE LET sig == getFuncSig(m, m.exp[e].Index) IN
              IF sig.kind = "panic" THEN "panic"
              ELSE IF sig.kind = "nil" THEN "errExpError"
              ELSE IF sig.typ.params.n # 0 \/ sig.typ.results.n # 0 THEN "errExpError"
              ELSE validateMemory(m)

\* ValModule.Validate: its return value, or "panic"
Validate(m) ==
    IF m.startEntry THEN "errHasStart"
    ELSE IF m.OnlyValidate /\ m.bCustom THEN "errHasCustom"
    ELSE IF Len(m.exp) # 2 THEN "errExports"
    ELSE LET e == findExport(m, StrMain) IN
         IF e = 0 THEN "errExpMiss"
         ELSE IF m.exp[e].Kind # FunctionKind THEN "errExpError"
         ELSE LET sig == getFuncSig(m, m.exp[e].Index) IN
              IF sig.kind = "panic" THEN "panic"
              ELSE IF sig.kind = "nil" THEN "errExpError"
              ELSE IF sig.typ.params.n # 0 \/ sig.typ.results.n # 0 THEN "errExpError"
              ELSE validateMemory(m)

\* Mutation: every decoded export is retained, whatever its name and kind.
RECURSIVE filterExports_mutKeepAll(_, _, _)
filterExports_mutKeepAll(items, i, acc) ==
    IF i > Len(items) THEN acc
    ELSE IF Len(acc) + 1 >= 2 THEN Append(acc, items[i])
    ELSE filterExports_mutKeepAll(items, i + 1, Append(acc, items[i]))

\* readSection, case ExportID: the loop over s.Exports from entry i on; acc is
\* vm.exp.Exports.  (Entries the decoder did not reach are zero and match
\* nothing.)
RECURSIVE filterExports(_, _, _)
filterExports(items, i, acc) ==
    IF i > Len(items) THEN acc
    ELSE IF \/ (StrEq(items[i].Field, StrMain) /\ items[i].Kind = FunctionKind)
            \/ (StrEq(items[i].Field, StrMemory) /\ items[i].Kind = MemoryKind)
         THEN IF Len(acc) + 1 >= 2 THEN Append(acc, items[i])
              ELSE filterExports(items, i + 1, Append(acc, items[i]))
         ELSE filterExports(items, i + 1, acc)

\* readSection, first switch: the section's payload read through the limited
\* reader d.st; sz is the declared length.  [d, m]
sectionBody(s, d, id, sz, m) ==
    LET typ(t) == [d |-> t.d, m |-> [m EXCEPT !.typ = t.v]]
        imp(t) == [d |-> t.d, m |-> [m EXCEPT !.imp = t.v]]
        fn(t)  == [d |-> t.d, m |-> [m EXCEPT !.fn = t.v]]
        exp(t) == [d |-> t.d, m |-> [m EXCEPT !.exp = filterExports(t.v.items, 1, m.exp)]]
        blob(t) == [d |-> t.d, m |-> m]
    IN CASE id = TypeID -> typ(readTypeSection(s, d, m.typ))
         [] id = ImportID -> imp(readImportSection(s, d, m.imp))
         [] id = FunctionID -> fn(readFunctionSection(s, d, m.fn))
         [] id = ExportID -> exp(readExportSection(s, d, NilSlice))
         [] OTHER -> blob(read(s, d, sz))

RECURSIVE Zeros(_)
Zeros(n) == IF n <= 0 THEN <<>> ELSE <<0>> \o Zeros(n - 1)

\* []byte(ep.Field)
FieldBytes(str) == str.data \o Zeros(str.len - Len(str.data))

\* readSection, case ExportID of the second switch: one entry's ebuff
exportEntryBytes(ep) ==
    <<ep.Field.len % 256>> \o FieldBytes(ep.Field) \o <<ep.Kind>> \o bytes(ep.Index)

RECURSIVE exportEntriesBytes(_, _)
exportEntriesBytes(exps, i) ==
    IF i > Len(exps) THEN <<>> ELSE exportEntryBytes(exps[i]) \o exportEntriesBytes(exps, i + 1)

\* Mutation: the declared length leaves out the count byte.
exportSectionBytes_mutLenNoCount(id, exps) ==
    LET obuf == exportEntriesBytes(exps, 1) IN
    <<id % 256>> \o bytes(U32(Len(obuf))) \o <<Len(exps) % 256>> \o obuf

\* the rebuilt Export section (ebuff of the second block); obuf not empty
exportSectionBytes(id, exps) ==
    LET obuf == exportEntriesBytes(exps, 1) IN
    <<id % 256>> \o bytes(U32(Len(obuf) + 1)) \o <<Len(exps) % 256>> \o obuf

\* vm.buff = append(vm.buff, chunk...).  While vm.buff still is the slice
\* inbuf[:8] grown in place, an append that fits the capacity cp of inbuf's
\* array writes into that array, and so into the bytes of inbuf it covers;
\* one that does not fit moves vm.buff to an array of its own.  [s, m]
vmAppend(s, m, cp, chunk) ==
    LET old == Len(m.buff)
        new == old + Len(chunk)
    IN IF m.shared /\ new <= cp
       THEN [s |-> [i \in 1..Len(s) |-> IF i > old /\ i <= new THEN chunk[i - old] ELSE s[i]],
             m |-> [m EXCEPT !.buff = m.buff \o chunk]]
       ELSE [s |-> s, m |-> [m EXCEPT !.buff = m.buff \o chunk, !.shared = FALSE]]

SecRet(e, s, p, m) == [err |-> e, s |-> s, pos |-> p, m |-> m]

\* Mutation: the Export section is copied to the output like any other.
vmEmit_mutCopyExport(s, p, m, cp, id, outBytes) ==
    IF id = UnknownID THEN SecRet("nil", s, p, [m EXCEPT !.bCustom = TRUE])
    ELSE LET m1 == IF id = StartID THEN [m EXCEPT !.startEntry = TRUE] ELSE m IN
         IF m1.OnlyValidate THEN SecRet("nil", s, p, m1)
         ELSE LET a == vmAppend(s, m1, cp, outBytes) IN SecRet("nil", a.s, p, a.m)

\* Mutation: a Custom section sets its flag and is copied to the output.
vmEmit_mutCopyCustom(s, p, m, cp, id, outBytes) ==
    IF id = ExportID
    THEN IF m.OnlyValidate THEN SecRet("nil", s, p, m)
         ELSE IF \E i \in 1..Len(m.exp) : m.exp[i].Field.len > 64
              THEN SecRet("errReadSection", s, p, m)
         ELSE IF Len(exportEntriesBytes(m.exp, 1)) > 0
              THEN IF Len(m.exp) > 64 THEN SecRet("errExports", s, p, m)
                   ELSE LET a == vmAppend(s, m, cp, exportSectionBytes(id, m.exp))
                        IN SecRet("nil", a.s, p, a.m)
         ELSE SecRet("nil", s, p, m)
    ELSE LET m1 == IF id = StartID THEN [m EXCEPT !.startEntry = TRUE]
                   ELSE IF id = UnknownID THEN [m EXCEPT !.bCustom = TRUE] ELSE m IN
         IF m1.OnlyValidate THEN SecRet("nil", s, p, m1)
         ELSE LET a == vmAppend(s, m1, cp, outBytes) IN SecRet("nil", a.s, p, a.m)

\* Mutation: a Start section sets its flag and is not copied to the output.
vmEmit_mutDropStart(s, p, m, cp, id, outBytes) ==
    IF id = UnknownID THEN SecRet("nil", s, p, [m EXCEPT !.bCustom = TRUE])
    ELSE IF id = ExportID
    THEN IF m.OnlyValidate THEN SecRet("nil", s, p, m)
         ELSE IF \E i \in 1..Len(m.exp) : m.exp[i].Field.len > 64
              THEN SecRet("errReadSection", s, p, m)
         ELSE IF Len(exportEntriesBytes(m.exp, 1)) > 0
              THEN IF Len(m.exp) > 64 THEN SecRet("errExports", s, p, m)
                   ELSE LET a == vmAppend(s, m, cp, exportSectionBytes(id, m.exp))
                        IN SecRet("nil", a.s, p, a.m)
         ELSE SecRet("nil", s, p, m)
    ELSE IF id = StartID THEN SecRet("nil", s, p, [m EXCEPT !.startEntry = TRUE])
    ELSE IF m.OnlyValidate THEN SecRet("nil", s, p, m)
         ELSE LET a == vmAppend(s, m, cp, outBytes) IN SecRet("nil", a.s, p, a.m)

\* readSection, second switch: what the section leaves in the ValModule and
\* in the output; outBytes is out.Bytes(), the section as it was read.
vmEmit(s, p, m, cp, id, outBytes) ==
    IF id = UnknownID THEN SecRet("nil", s, p, [m EXCEPT !.bCustom = TRUE])
    ELSE IF id = ExportID
    THEN IF m.OnlyValidate THEN SecRet("nil", s, p, m)
         ELSE IF \E i \in 1..Len(m.exp) : m.exp[i].Field.len > 64
              THEN SecRet("errReadSection", s, p, m)
         ELSE IF Len(exportEntriesBytes(m.exp, 1)) > 0
              THEN IF Len(m.exp) > 64 THEN SecRet("errExports", s, p, m)
                   ELSE LET a == vmAppend(s, m, cp, exportSectionBytes(id, m.exp))
                        IN SecRet("nil", a.s, p, a.m)
         ELSE SecRet("nil", s, p, m)
    ELSE LET m1 == IF id = StartID THEN [m EXCEPT !.startEntry = TRUE] ELSE m IN
         IF m1.OnlyValidate THEN SecRet("nil", s, p, m1)
         ELSE LET a == vmAppend(s, m1, cp, outBytes) IN SecRet("nil", a.s, p, a.m)

\* ValModule.readSection at reader position p: its return value ("panic" for
\* the nil-interface call sec.ID() in the unread-bytes branch), and the input
\* array, reader position and ValModule it leaves.
vmReadSection(s, p, m, cp) ==
    LET body(id, b) ==
            IF b.d.err # "nil" THEN SecRet("errReadSection", s, b.d.st.pos, b.m)
            ELSE IF b.d.st.N # 0 THEN SecRet("panic", s, b.d.st.pos, b.m)
            ELSE vmEmit(s, b.d.st.pos, b.m, cp, ToInt(id.v), SubSeq(s, p + 1, b.d.st.pos))
        size(id, sz) ==
            IF sz.d.err # "nil" THEN SecRet("errReadSection", s, sz.d.st.pos, m)
            ELSE body(id, sectionBody(s, Dec("nil", Rd(sz.d.st.pos, ToInt(sz.v))),
                                      ToInt(id.v), ToInt(sz.v), m))
        ident(id) ==
            IF id.d.err # "nil" THEN SecRet(id.d.err, s, id.d.st.pos, m)
            ELSE size(id, readVarU32(s, id.d, U32Zero))
    IN ident(readVarU7(s, Dec("nil", Rd(p, Unlimited)), U32Zero))

\* ValModule.Bytes
Bytes(m) == m.buff

\* ReadValModule's loop from reader position p on: [ret, s, m], what it
\* returns and the input array and ValModule it leaves
RECURSIVE readSections(_, _, _, _)
readSections(s, p, m, cp) ==
    LET turn(r) ==
            IF r.err = "nil" THEN readSections(r.s, r.pos, r.m, cp)
            ELSE [ret |-> IF r.err = "EOF" THEN "nil" ELSE r.err, s |-> r.s, m |-> r.m]
    IN turn(vmReadSection(s, p, m, cp))

\* ValModule.ReadValModule(inbuf) as one step, on the ValModule m; cp is
\* cap(inbuf)
ReadValModule(s, cp, m) ==
    IF Len(s) >= 8 /\ SubSeq(s, 1, 4) = magicWASM
    THEN readSections(s, 8, [m EXCEPT !.buff = SubSeq(s, 1, 8), !.shared = TRUE], cp)
    ELSE [ret |-> "errHead", s |-> s, m |-> m]

\* ------------------------------------------------------------------ inputs
\* Inputs are written down as abstract modules and encoded by the format's
\* rules (unsigned LEB128 lengths and counts, length-prefixed names), so that
\* what the program decodes can be compared with what was encoded.

\* canonical unsigned LEB128 of a natural
RECURSIVE Leb(_)
Leb(n) == IF n < 128 THEN <<n>> ELSE <<(n % 128) + 128>> \o Leb(n \div 128)

RECURSIVE Flatten(_)
Flatten(ss) == IF ss = <<>> THEN <<>> ELSE Head(ss) \o Flatten(Tail(ss))

EncStr(bs) == Leb(Len(bs)) \o bs
EncVec(items) == Leb(Len(items)) \o Flatten(items)
\* a value type -64..63 as its one-byte signed LEB128
EncValueType(t) == <<(t + 128) % 128>>

AFuncType(ps, rs) == [params |-> ps, results |-> rs]
EncFuncType(ft) ==
    <<96>> \o EncVec([i \in 1..Len(ft.params) |-> EncValueType(ft.params[i])])
           \o EncVec([i \in 1..Len(ft.results) |-> EncValueType(ft.results[i])])

\* an import: of a function with type index typ, or (kind table) of a table
\* of anyfunc with limits {flags 0, initial 1}
AImport(mod, fld, k, t) == [module |-> mod, field |-> fld, kind |-> k, typ |-> t]
EncImport(im) ==
    EncStr(im.module) \o EncStr(im.field) \o <<im.kind>> \o
    (IF im.kind = FunctionKind THEN Leb(im.typ) ELSE <<112, 0, 1>>)

\* an export; wide: the index is written with one redundant continuation
\* group (index below 128)
AExport(nm, k, i, w) == [name |-> nm, kind |-> k, idx |-> i, wide |-> w]
EncExport(ex) ==
    EncStr(ex.name) \o <<ex.kind>> \o
    (IF ex.wide THEN <<ex.idx + 128, 0>> ELSE Leb(ex.idx))

\* An abstract section: the identifier, the entries of the kind the
\* identifier names (raw: the payload of a section that has no entries
\* here), and pad, the number of bytes by which the declared length exceeds
\* the payload (that many zero bytes follow it).
ASec(id, types, imports, funcs, exports, raw, pad) ==
    [id |-> id, types |-> types, imports |-> imports, funcs |-> funcs,
     exports |-> exports, raw |-> raw, pad |-> pad]

APayload(a) ==
    CASE a.id = TypeID -> EncVec([i \in 1..Len(a.types) |-> EncFuncType(a.types[i])])
      [] a.id = ImportID -> EncVec([i \in 1..Len(a.imports) |-> EncImport(a.imports[i])])
      [] a.id = FunctionID -> EncVec([i \in 1..Len(a.funcs) |-> Leb(a.funcs[i])])
      [] a.id = ExportID -> EncVec([i \in 1..Len(a.exports) |-> EncExport(a.exports[i])])
      [] OTHER -> a.raw

\* the bytes of a section: identifier, declared length, payload, padding
ASecBytes(a) ==
    <<a.id>> \o Leb(Len(APayload(a)) + a.pad) \o APayload(a) \o Zeros(a.pad)

VersionBytes == <<1, 0, 0, 0>>

\* an abstract module: hdr tells how the 8-byte header is written
AHeaderBytes(hdr) ==
    CASE hdr = "ok" -> magicWASM \o VersionBytes
      [] hdr = "badmagic" -> <<0, 97, 115, 110>> \o VersionBytes
      [] hdr = "short" -> magicWASM
      [] OTHER -> <<>>

AModBytes(am) ==
    AHeaderBytes(am.hdr) \o Flatten([i \in 1..Len(am.secs) |-> ASecBytes(am.secs[i])])

StrFoo == <<102, 111, 111>>
StrPrint == <<112, 114, 105, 110, 116>>
StrEnv == <<101, 110, 118>>

TypeSec(pad) ==
    ASec(TypeID, <<AFuncType(<<>>, <<>>), AFuncType(<<ValueI32, ValueI32>>, <<>>)>>,
         <<>>, <<>>, <<>>, <<>>, pad)
ImportSec(ims) == ASec(ImportID, <<>>, ims, <<>>, <<>>, <<>>, 0)
FuncSec(fs) == ASec(FunctionID, <<>>, <<>>, fs, <<>>, <<>>, 0)
ExportSec(exs, pad) == ASec(ExportID, <<>>, <<>>, <<>>, exs, <<>>, pad)
CustomSec == ASec(UnknownID, <<>>, <<>>, <<>>, <<>>, <<1, 120>>, 0)
StartSec(pad) == ASec(StartID, <<>>, <<>>, <<>>, <<>>, <<0>>, pad)

ExMain(i) == AExport(StrMain, FunctionKind, i, FALSE)
ExMemory(i, w) == AExport(StrMemory, MemoryKind, i, w)
ExFoo == AExport(StrFoo, FunctionKind, 0, FALSE)

\* The choices for each position of an input, <<>> for "no section here".
CustomChoices == {<<>>, <<CustomSec>>}
TypeChoices == {<<>>, <<TypeSec(0)>>, <<TypeSec(1)>>}
ImportChoices ==
    {<<>>,
     <<ImportSec(<<AImport(StrDebug, StrPrint, FunctionKind, 1)>>)>>,
     <<ImportSec(<<AImport(StrDebug, StrPrint, FunctionKind, 0)>>)>>,
     <<ImportSec(<<AImport(StrEnv, StrPrint, TableKind, 0)>>)>>}
FuncChoices == {<<>>, <<FuncSec(<<0>>)>>, <<FuncSec(<<1>>)>>, <<FuncSec(<<9>>)>>}
ExportChoices ==
    {<<>>,
     <<ExportSec(<<ExMain(0), ExMemory(0, FALSE)>>, 0)>>,
     <<ExportSec(<<ExMain(1), ExMemory(0, FALSE)>>, 0)>>,
     <<ExportSec(<<ExFoo, ExMemory(0, TRUE), ExMain(0)>>, 0)>>,
     <<ExportSec(<<ExMain(0)>>, 0)>>,
     <<ExportSec(<<ExMemory(1, FALSE), ExMain(0)>>, 0)>>,
     <<ExportSec(<<ExMain(0), ExMain(0)>>, 0)>>,
     <<ExportSec(<<ExFoo>>, 0)>>,
     <<ExportSec(<<ExMain(0), ExMemory(0, FALSE)>>, 1)>>}
StartChoices == {<<>>, <<StartSec(0)>>, <<StartSec(1)>>}
Export2Choices ==
    {<<>>,
     <<ExportSec(<<ExMemory(0, FALSE)>>, 0)>>,
     <<ExportSec(<<ExMain(0), ExMemory(0, FALSE)>>, 0)>>}

\* The inputs: a well-formed header followed by at most MaxSections sections,
\* and the three ways of having no header.
AModules ==
    {[hdr |-> "ok", secs |-> c \o t \o i \o f \o e \o st \o e2] :
        c \in CustomChoices, t \in TypeChoices, i \in ImportChoices, f \in FuncChoices,
        e \in ExportChoices, st \in StartChoices, e2 \in Export2Choices}

Inputs ==
    {am \in AModules : Len(am.secs) <= MaxSections}
    \cup {[hdr |-> h, secs |-> <<>>] : h \in {"badmagic", "short", "empty"}}

\* ------------------------------------------------------------------- state
VARIABLES
    amod,    \* the input as an abstract module (never changed; for reference)
    inbuf,   \* the array of the caller's slice inbuf, up to len(inbuf)
    cap,     \* cap(inbuf)
    pos,     \* bytes of inbuf the bytes.Reader has handed out
    vm,      \* the ValModule
    pc,      \* "new", "sections" (inside ReadValModule's loop), "returned", "validated"
    ret,     \* what ReadValModule returned ("panic": it did not return)
    verr,    \* what Validate returned
    cmode,   \* codec: "value" (encode, then decode) or "source" (decode)
    cv,      \* codec: the varuint32 to encode
    csrc,    \* codec: the bytes the reader supplies
    cenc,    \* codec: bytes() of cv
    cdec,    \* codec: the result of uvarint
    cpc,     \* codec: "init", "encoded", "decoded"
    gd,      \* general decoder: the decoder (its sticky error and its reader over inbuf)
    gm,      \* general decoder: the Module readModule builds
    gpc,     \* general decoder: "new", "sections" (inside readModule's loop), "returned"
    gret     \* general decoder: the error readModule returned ("panic": it did not return)

mvars == <<amod, inbuf, cap, pos, vm, pc, ret, verr>>
cvars == <<cmode, cv, csrc, cenc, cdec, cpc>>
gvars == <<gd, gm, gpc, gret>>
vars == <<amod, inbuf, cap, pos, vm, pc, ret, verr, cmode, cv, csrc, cenc, cdec, cpc,
          gd, gm, gpc, gret>>

\* the zero ValModule, with its one public field set by the caller
NewValModule(ov) ==
    [OnlyValidate |-> ov, typ |-> NilSlice, imp |-> NilSlice, exp |-> <<>>,
     fn |-> NilSlice, startEntry |-> FALSE, bCustom |-> FALSE,
     buff |-> <<>>, shared |-> FALSE]

NoResult == [v |-> U32Zero, n |-> 0, err |-> "none", st |-> Rd(0, Unlimited)]

CodecIdle ==
    /\ cmode = "idle" /\ cv = U32Zero /\ csrc = <<>> /\ cenc = <<>>
    /\ cdec = NoResult /\ cpc = "idle"

ModuleIdle ==
    /\ amod = [hdr |-> "empty", secs |-> <<>>] /\ inbuf = <<>> /\ cap = 0 /\ pos = 0
    /\ vm = NewValModule(FALSE) /\ pc = "idle" /\ ret = "none" /\ verr = "none"

\* the zero Module
NewModule == [Header |-> <<>>, Sections |-> <<>>]

GeneralIdle ==
    /\ gd = Dec("nil", Rd(0, Unlimited)) /\ gm = NewModule /\ gpc = "idle" /\ gret = "none"

\* ---------------------------------------------- ValModule: the specification
Init ==
    /\ amod \in Inputs
    /\ inbuf = AModBytes(amod)
    /\ cap \in {Len(inbuf), Len(inbuf) + MaxCapSlack}
    /\ pos = 0
    /\ vm \in {NewValModule(ov) : ov \in BOOLEAN}
    /\ pc = "new" /\ ret = "none" /\ verr = "none"
    /\ CodecIdle
    /\ GeneralIdle

\* ReadValModule up to its loop: decoder.readHeader (binary.Read of the
\* 8-byte header, then the magic test) and vm.buff = inbuf[:8]
ReadHeader ==
    /\ pc = "new"
    /\ IF Len(inbuf) >= 8 /\ SubSeq(inbuf, 1, 4) = magicWASM
       THEN /\ vm' = [vm EXCEPT !.buff = SubSeq(inbuf, 1, 8), !.shared = TRUE]
            /\ pos' = 8
            /\ pc' = "sections"
            /\ ret' = ret
       ELSE /\ pc' = "returned"
            /\ ret' = "errHead"
            /\ pos' = Min(Len(inbuf), 8)
            /\ vm' = vm
    /\ UNCHANGED <<amod, inbuf, cap, verr>>
    /\ UNCHANGED cvars
    /\ UNCHANGED gvars

\* One turn of ReadValModule's loop: readSection, and the return it leads to
ReadSection ==
    /\ pc = "sections"
    /\ \E r \in {vmReadSection(inbuf, pos, vm, cap)} :
       /\ inbuf' = r.s
       /\ pos' = r.pos
       /\ vm' = r.m
       /\ IF r.err = "nil" THEN pc' = "sections" /\ ret' = ret
          ELSE /\ pc' = "returned"
               /\ ret' = IF r.err = "EOF" THEN "nil" ELSE r.err
    /\ UNCHANGED <<amod, cap, verr>>
    /\ UNCHANGED cvars
    /\ UNCHANGED gvars

\* The caller's Validate() after a ReadValModule that returned nil
DoValidate ==
    /\ pc = "returned"
    /\ ret = "nil"
    /\ verr' = Validate(vm)
    /\ pc' = "validated"
    /\ UNCHANGED <<amod, inbuf, cap, pos, vm, ret>>
    /\ UNCHANGED cvars
    /\ UNCHANGED gvars

Next == ReadHeader \/ ReadSection \/ DoValidate

Spec == Init /\ [][Next]_vars

\* ------------------------------------------------- codec: the specification
\* Values with any choice of the bits next to the 7-bit group borders set,
\* and the values of the encoder's test.
BorderBits == {0, 6, 7, 13, 14, 20, 21, 27, 28, 31}
RECURSIVE SumPow2(_)
SumPow2(S) == IF S = {} THEN 0 ELSE LET j == CHOOSE k \in S : TRUE IN Pow2(j) + SumPow2(S \ {j})
CodecValues ==
    {<<SumPow2({j - 16 : j \in {k \in S : k >= 16}}), SumPow2({k \in S : k < 16})>> :
        S \in SUBSET BorderBits}
    \cup {U32(20), U32(129), U32(65536), U32(259)}

\* Sources of up to MaxSrcLen bytes: terminating bytes 15 and 16,
\* continuation bytes 0x80 and 0xff.
SrcBytes == {15, 16, 128, 255}
RECURSIVE SeqsUpTo(_, _)
SeqsUpTo(S, n) ==
    IF n = 0 THEN {<<>>}
    ELSE LET shorter == SeqsUpTo(S, n - 1) IN
         shorter \cup {Append(q, b) : q \in {x \in shorter : Len(x) = n - 1}, b \in S}
CodecSources == SeqsUpTo(SrcBytes, MaxSrcLen)

InitCodec ==
    /\ \/ cmode = "value" /\ cv \in CodecValues /\ csrc = <<>>
       \/ cmode = "source" /\ cv = U32Zero /\ csrc \in CodecSources
    /\ cenc = <<>> /\ cdec = NoResult /\ cpc = "init"
    /\ ModuleIdle
    /\ GeneralIdle

\* v.bytes()
Encode ==
    /\ cpc = "init" /\ cmode = "value"
    /\ cenc' = bytes(cv)
    /\ cpc' = "encoded"
    /\ UNCHANGED <<cmode, cv, csrc, cdec>>
    /\ UNCHANGED mvars
    /\ UNCHANGED gvars

\* uvarint over a reader of the bytes just encoded
DecodeEncoded ==
    /\ cpc = "encoded"
    /\ cdec' = uvarint(cenc, Rd(0, Unlimited))
    /\ cpc' = "decoded"
    /\ UNCHANGED <<cmode, cv, csrc, cenc>>
    /\ UNCHANGED mvars
    /\ UNCHANGED gvars

\* uvarint over a reader of the source bytes
DecodeSource ==
    /\ cpc = "init" /\ cmode = "source"
    /\ cdec' = uvarint(csrc, Rd(0, Unlimited))
    /\ cpc' = "decoded"
    /\ UNCHANGED <<cmode, cv, csrc, cenc>>
    /\ UNCHANGED mvars
    /\ UNCHANGED gvars

NextCodec == Encode \/ DecodeEncoded \/ DecodeSource

SpecCodec == InitCodec /\ [][NextCodec]_vars

\* =================================================================== claims

\* ---- the varint codec (specification SpecCodec)

\* C1: for every uint32 v, uvarint over the bytes of v.bytes() returns v, a
\* count of bytes read equal to the length of the encoding, and no error.
C1_RoundTrip ==
    (cpc = "decoded" /\ cmode = "value") =>
        /\ cdec.v = cv
        /\ cdec.n = Len(cenc)
        /\ cdec.err = "nil"

\* a value of five groups (bit 31 set) has been encoded and decoded back
C1_Witness ==
    /\ cpc = "decoded" /\ cmode = "value"
    /\ cv[1] >= 32768 /\ Len(cenc) = 5
    /\ cdec.v = cv /\ cdec.n = 5

\* The reference encoder: group i (from 0) holds bits 7i..7i+6 of v.
RefGroup(v, i) ==
    CASE i = 0 -> v[2] % 128
      [] i = 1 -> (v[2] \div 128) % 128
      [] i = 2 -> (v[2] \div 16384) + (v[1] % 32) * 4
      [] i = 3 -> (v[1] \div 32) % 128
      [] OTHER -> v[1] \div 4096

\* v < 2^(7k)
RefBelow(v, k) ==
    CASE k = 1 -> v[1] = 0 /\ v[2] < 128
      [] k = 2 -> v[1] = 0 /\ v[2] < 16384
      [] k = 3 -> v[1] < 32
      [] k = 4 -> v[1] < 4096
      [] OTHER -> TRUE

RefLen(v) == CHOOSE k \in 1..5 : RefBelow(v, k) /\ \A j \in 1..(k - 1) : ~RefBelow(v, j)

RefEncode(v) ==
    [i \in 1..RefLen(v) |-> RefGroup(v, i - 1) + (IF i < RefLen(v) THEN 128 ELSE 0)]

\* C2: v.bytes() is the canonical LEB128 encoding of v: the smallest number
\* k of groups with v < 2^(7k), the high bit set on every byte but the last,
\* byte i carrying bits 7i..7i+6; and 20, 129, 65536, 259 encode as in the
\* repository's test.
C2_Canonical ==
    (cpc \in {"encoded", "decoded"} /\ cmode = "value") =>
        /\ cenc = RefEncode(cv)
        /\ cv = U32(20) => cenc = <<20>>
        /\ cv = U32(129) => cenc = <<129, 1>>
        /\ cv = U32(65536) => cenc = <<128, 128, 4>>
        /\ cv = U32(259) => cenc = <<131, 2>>

C2_Witness == cpc = "encoded" /\ cv = U32(65536) /\ cenc = <<128, 128, 4>>

\* the first k bytes of the source are continuation bytes
SrcCont(k) == Len(csrc) >= k /\ \A i \in 1..k : csrc[i] >= 128

\* C10: uvarint fails with errOverflow when the encoding is longer than five
\* bytes, when its fifth byte ends it with a value above 15, and whenever the
\* source supplies six continuation bytes, whatever follows them.
C10_Overflow ==
    (cpc = "decoded" /\ cmode = "source") =>
        /\ (SrcCont(5) /\ \E i \in 6..Len(csrc) : csrc[i] < 128) => cdec.err = "errOverflow"
        /\ (SrcCont(4) /\ Len(csrc) >= 5 /\ csrc[5] < 128 /\ csrc[5] > 15)
               => cdec.err = "errOverflow"
        /\ SrcCont(6) => cdec.err = "errOverflow"

\* ---- ValModule (specification Spec)

\* the input module, seen abstractly
ASecsOf(am, id) == SelectSeq(am.secs, LAMBDA a : a.id = id)
AHas(am, id) == \E i \in 1..Len(am.secs) : am.secs[i].id = id
ATypes(am) == IF AHas(am, TypeID) THEN ASecsOf(am, TypeID)[1].types ELSE <<>>
AImports(am) == IF AHas(am, ImportID) THEN ASecsOf(am, ImportID)[1].imports ELSE <<>>
AFuncs(am) == IF AHas(am, FunctionID) THEN ASecsOf(am, FunctionID)[1].funcs ELSE <<>>
AExports(am) ==
    Flatten([i \in 1..Len(ASecsOf(am, ExportID)) |-> ASecsOf(am, ExportID)[i].exports])

\* the signature of function k of the index space (imported functions first),
\* <<>> when there is none
ASigOfType(am, t) == IF t < Len(ATypes(am)) THEN <<ATypes(am)[t + 1]>> ELSE <<>>
ASig(am, k) ==
    IF k < Len(AImports(am))
    THEN IF AImports(am)[k + 1].kind = FunctionKind
         THEN ASigOfType(am, AImports(am)[k + 1].typ) ELSE <<>>
    ELSE IF k - Len(AImports(am)) < Len(AFuncs(am))
         THEN ASigOfType(am, AFuncs(am)[k - Len(AImports(am)) + 1]) ELSE <<>>

\* the import is a function import found in the allow-list with its signature
AImportAllowed(am, im) ==
    /\ im.kind = FunctionKind
    /\ ASigOfType(am, im.typ) # <<>>
    /\ \/ im.module = StrDebug /\
          \E e \in dbgMap : /\ e.name = im.field
                            /\ e.params = ASigOfType(am, im.typ)[1].params
                            /\ e.results = ASigOfType(am, im.typ)[1].results
       \/ im.module = StrEthereum /\
          \E e \in ethMap : /\ e.name = im.field
                            /\ e.params = ASigOfType(am, im.typ)[1].params
                            /\ e.results = ASigOfType(am, im.typ)[1].results

AMainExports(am) ==
    {i \in 1..Len(AExports(am)) :
        AExports(am)[i].name = StrMain /\ AExports(am)[i].kind = FunctionKind}
AMemoryExports(am) ==
    {i \in 1..Len(AExports(am)) :
        AExports(am)[i].name = StrMemory /\ AExports(am)[i].kind = MemoryKind}

\* the profile of the acceptance property
AConforms(am) ==
    /\ Cardinality(AMainExports(am)) = 1
    /\ \A i \in AMainExports(am) : ASig(am, AExports(am)[i].idx) = <<AFuncType(<<>>, <<>>)>>
    /\ Cardinality(AMemoryExports(am)) = 1
    /\ \A i \in AMemoryExports(am) : AExports(am)[i].idx = 0
    /\ ~AHas(am, StartID)
    /\ ~AHas(am, UnknownID)
    /\ \A i \in 1..Len(AImports(am)) : AImportAllowed(am, AImports(am)[i])

\* C3: a module that ReadValModule decoded without error and that has exactly
\* one function export "main" of signature () -> (), exactly one memory
\* export "memory", of index 0, no Start and no Custom section, and only
\* allow-listed function imports, passes Validate.
C3_Acceptance ==
    (pc = "validated" /\ AConforms(amod)) => verr = "nil"

\* such a module, with an import, has been validated
C3_Witness ==
    /\ pc = "validated" /\ AConforms(amod)
    /\ Len(AImports(amod)) = 1
    /\ vm.imp.n = 1 /\ Len(vm.exp) = 2
    /\ verr = "nil"

\* what Validate's "main" and "memory" predicates read in the exports
VmMainMissing == \A i \in 1..Len(vm.exp) : ~StrEq(vm.exp[i].Field, StrMain)
VmMemoryMissing == \A i \in 1..Len(vm.exp) : ~StrEq(vm.exp[i].Field, StrMemory)

\* C4: Validate returns the error of the first failing predicate in the order
\* start, custom (strict mode), export count, "main", "memory", imports; a
\* module that had a Start section gets errHasStart whatever else is wrong.
C4_Order ==
    pc = "validated" =>
        /\ verr \in {"nil", "errHasStart", "errHasCustom", "errExports", "errExpMiss",
                     "errExpError", "errImportNotFunc", "errImportFunc"}
        /\ AHas(amod, StartID) => verr = "errHasStart"
        /\ (~AHas(amod, StartID) /\ vm.OnlyValidate /\ AHas(amod, UnknownID))
               => verr = "errHasCustom"
        /\ (~AHas(amod, StartID) /\ ~(vm.OnlyValidate /\ AHas(amod, UnknownID))
              /\ Len(vm.exp) # 2) => verr = "errExports"
        /\ (~AHas(amod, StartID) /\ ~(vm.OnlyValidate /\ AHas(amod, UnknownID))
              /\ Len(vm.exp) = 2 /\ VmMainMissing) => verr = "errExpMiss"
        /\ verr \in {"nil", "errImportNotFunc", "errImportFunc"}
               => ~VmMainMissing /\ ~VmMemoryMissing

\* The reference output.  The entries an Export section contributes: those
\* named "main" of kind function or "memory" of kind memory, the first two.
AKeep(ex) ==
    \/ ex.name = StrMain /\ ex.kind = FunctionKind
    \/ ex.name = StrMemory /\ ex.kind = MemoryKind
AFiltered(exs) ==
    LET k == SelectSeq(exs, AKeep) IN IF Len(k) > 2 THEN SubSeq(k, 1, 2) ELSE k

RefExportEntry(ex) == <<Len(ex.name)>> \o ex.name \o <<ex.kind>> \o Leb(ex.idx)
RefExportSection(exs) ==
    IF exs = <<>> THEN <<>>
    ELSE LET body == Flatten([i \in 1..Len(exs) |-> RefExportEntry(exs[i])]) IN
         <<ExportID>> \o Leb(Len(body) + 1) \o <<Len(exs)>> \o body

\* The header, then section by section in input order: nothing for a Custom
\* section, the rebuilt section for an Export section, nothing or the
\* section's own bytes for a Start section, the section's own bytes otherwise.
RefOutput(am, keepStart) ==
    AHeaderBytes(am.hdr) \o
    Flatten([i \in 1..Len(am.secs) |->
        IF am.secs[i].id = UnknownID THEN <<>>
        ELSE IF am.secs[i].id = StartID /\ ~keepStart THEN <<>>
        ELSE IF am.secs[i].id = ExportID THEN RefExportSection(AFiltered(am.secs[i].exports))
        ELSE ASecBytes(am.secs[i])])

\* ReadValModule returned nil with output enabled, on an input with at most
\* one Export section
OutputOfOneExport ==
    /\ pc \in {"returned", "validated"} /\ ret = "nil" /\ ~vm.OnlyValidate
    /\ Len(ASecsOf(amod, ExportID)) <= 1

RECURSIVE RefLebAt(_, _)
RefLebAt(buf, p) ==
    IF p > Len(buf) THEN [v |-> 0, n |-> 0]
    ELSE IF buf[p] < 128 THEN [v |-> buf[p], n |-> 1]
    ELSE [v |-> (buf[p] - 128) + 128 * RefLebAt(buf, p + 1).v, n |-> RefLebAt(buf, p + 1).n + 1]

\* the identifiers of the sections of buf from position p on
RECURSIVE SectionIdsFrom(_, _)
SectionIdsFrom(buf, p) ==
    IF p > Len(buf) THEN <<>>
    ELSE <<buf[p]>> \o SectionIdsFrom(buf, p + 1 + RefLebAt(buf, p + 1).n + RefLebAt(buf, p + 1).v)

\* the identifiers of the sections of the output buffer
OutIds == SectionIdsFrom(Bytes(vm), 9)
OutCount(id) == Cardinality({i \in 1..Len(OutIds) : OutIds[i] = id})

C7_FilteredSet ==
    pc \in {"returned", "validated"} =>
        /\ \A i \in 1..Len(vm.exp) :
              \/ StrEq(vm.exp[i].Field, StrMain) /\ vm.exp[i].Kind = FunctionKind
              \/ /\ StrEq(vm.exp[i].Field, StrMemory) /\ vm.exp[i].Kind = MemoryKind
                 /\ vm.exp[i].Index = U32Zero
        /\ \A i, j \in 1..Len(vm.exp) : vm.exp[i].Field = vm.exp[j].Field => i = j

\* C8: whatever the number of Export sections, at most two exports are
\* retained and the output holds at most one Export section, none when
\* nothing is retained.
C8_AtMostTwo ==
    pc \in {"returned", "validated"} =>
        /\ Len(vm.exp) <= 2
        /\ OutCount(ExportID) <= 1
        /\ Len(vm.exp) = 0 => OutCount(ExportID) = 0

\* C9: an input with a section whose declared length exceeds what its
\* content needs makes ReadValModule return errReadSection.
C9_TrailingBytes ==
    (pc \in {"returned", "validated"} /\ \E i \in 1..Len(amod.secs) : amod.secs[i].pad > 0)
        => ret = "errReadSection"


\* ------------------------------------- decoder primitives: the specification
\* One call of readVarU7, readVarU1 or readVarI7 (cmode names it) on a fresh
\* decoder over a reader of the source bytes csrc; cdec is [d, v] afterwards.
PrimModes == {"readVarU7", "readVarU1", "readVarI7"}

InitPrim ==
    /\ cmode \in PrimModes /\ cv = U32Zero /\ csrc \in CodecSources
    /\ cenc = <<>> /\ cdec = NoResult /\ cpc = "init"
    /\ ModuleIdle
    /\ GeneralIdle

CallReadVarU7 ==
    /\ cpc = "init" /\ cmode = "readVarU7"
    /\ cdec' = readVarU7(csrc, Dec("nil", Rd(0, Unlimited)), U32Zero)
    /\ cpc' = "decoded"
    /\ UNCHANGED <<cmode, cv, csrc, cenc>>
    /\ UNCHANGED mvars
    /\ UNCHANGED gvars

CallReadVarU1 ==
    /\ cpc = "init" /\ cmode = "readVarU1"
    /\ cdec' = readVarU1(csrc, Dec("nil", Rd(0, Unlimited)), U32Zero)
    /\ cpc' = "decoded"
    /\ UNCHANGED <<cmode, cv, csrc, cenc>>
    /\ UNCHANGED mvars
    /\ UNCHANGED gvars

CallReadVarI7 ==
    /\ cpc = "init" /\ cmode = "readVarI7"
    /\ cdec' = readVarI7(csrc, Dec("nil", Rd(0, Unlimited)), 0)
    /\ cpc' = "decoded"
    /\ UNCHANGED <<cmode, cv, csrc, cenc>>
    /\ UNCHANGED mvars
    /\ UNCHANGED gvars

NextPrim == CallReadVarU7 \/ CallReadVarU1 \/ CallReadVarI7

SpecPrim == InitPrim /\ [][NextPrim]_vars

\* ---- the decoder primitives (specification SpecPrim)

\* C11: readVarU1, readVarU7 and readVarI7 succeed only for a one-byte
\* encoding, and when the first byte is a continuation byte and a second byte
\* follows they fail with errMalform.
C11_Malform ==
    (cpc = "decoded" /\ cmode \in PrimModes) =>
        /\ cdec.d.err = "nil" => (Len(csrc) >= 1 /\ csrc[1] < 128 /\ cdec.d.st.pos = 1)
        /\ (Len(csrc) >= 2 /\ csrc[1] >= 128) => cdec.d.err = "errMalform"


\* ---- ValModule (specification Spec), further claims

\* the exports of the input that the filter matches, over all Export sections
AMatching(am) == SelectSeq(AExports(am), AKeep)

\* the input has no Start section and exactly one matching export, and has
\* been decoded and validated
OneMatchingExport ==
    /\ pc = "validated"
    /\ ~AHas(amod, StartID)
    /\ Len(AMatching(amod)) = 1

\* C12, as stated: a module with no Start section whose input yields exactly
\* one matching export gets errExpMiss from Validate.
C12_Original == OneMatchingExport => verr = "errExpMiss"

\* C12, amended: such a module gets errExports from Validate (the count of
\* retained exports is tested before "main" and "memory" are looked up),
\* or errHasCustom in strict mode when it has a Custom section.
C12_OneExport ==
    OneMatchingExport =>
        verr = IF vm.OnlyValidate /\ AHas(amod, UnknownID) THEN "errHasCustom" ELSE "errExports"

\* a module whose only matching export is "main" has been rejected for its
\* export count
C12_Witness ==
    /\ OneMatchingExport
    /\ AMatching(amod)[1].name = StrMain
    /\ Len(vm.exp) = 1
    /\ verr = "errExports"


\* Validate has passed its Start, Custom and export-count predicates
CountPassed ==
    /\ pc = "validated"
    /\ ~vm.startEntry /\ ~(vm.OnlyValidate /\ vm.bCustom)
    /\ Len(vm.exp) = 2

\* the first retained export named nam (there is one)
VmExport(nam) ==
    vm.exp[CHOOSE i \in 1..Len(vm.exp) :
               /\ StrEq(vm.exp[i].Field, nam)
               /\ \A j \in 1..(i - 1) : ~StrEq(vm.exp[j].Field, nam)]

\* the "main" predicate as the claim words it: the signature is resolved
\* through the function index space of the input, imported functions first
MainConforms ==
    /\ ~VmMainMissing
    /\ VmExport(StrMain).Kind = FunctionKind
    /\ ASig(amod, ToInt(VmExport(StrMain).Index)) = <<AFuncType(<<>>, <<>>)>>

\* the "memory" predicate
MemoryConforms ==
    /\ ~VmMemoryMissing
    /\ VmExport(StrMemory).Kind = MemoryKind
    /\ VmExport(StrMemory).Index = U32Zero

\* C13: the "main" predicate passes exactly when an export "main" of kind
\* function exists whose signature, resolved through the Import section for
\* an index below the import count and through the Function section for the
\* others, is () -> (); a missing "main" gives errExpMiss and a resolved
\* signature that is not empty gives errExpError.
C13_MainPredicate ==
    CountPassed =>
        /\ VmMainMissing => verr = "errExpMiss"
        /\ (/\ ~VmMainMissing
            /\ ASig(amod, ToInt(VmExport(StrMain).Index)) # <<>>
            /\ ASig(amod, ToInt(VmExport(StrMain).Index)) # <<AFuncType(<<>>, <<>>)>>)
               => verr = "errExpError"
        /\ MemoryConforms =>
               (MainConforms <=> verr \in {"nil", "errImportNotFunc", "errImportFunc"})


\* --------------------------------------- Validate on imports: the specification
\* ReadValModule and Validate (the actions of Spec) on modules made of one
\* Type section, an Import section of up to MaxImports entries, a Function
\* section of one local function of type () -> (), and an Export section
\* with "main" and "memory".
MaxImports == 2

StrFinish == <<102, 105, 110, 105, 115, 104>>
StrPrintStorage == <<112, 114, 105, 110, 116, 83, 116, 111, 114, 97, 103, 101>>
StrGetCallDataSize == <<103, 101, 116, 67, 97, 108, 108, 68, 97, 116, 97, 83, 105, 122, 101>>

\* types 0..4: () -> (), (i32,i32) -> (), (i32) -> (), () -> (i32), (i32,i64) -> ()
ImpTypeSec ==
    ASec(TypeID,
         <<AFuncType(<<>>, <<>>), AFuncType(<<ValueI32, ValueI32>>, <<>>),
           AFuncType(<<ValueI32>>, <<>>), AFuncType(<<>>, <<ValueI32>>),
           AFuncType(<<ValueI32, ValueI64>>, <<>>)>>,
         <<>>, <<>>, <<>>, <<>>, 0)

ImpEntries ==
    {AImport(StrDebug, StrPrint, FunctionKind, 1),            \* allowed
     AImport(StrEthereum, StrFinish, FunctionKind, 1),        \* allowed
     AImport(StrDebug, StrPrintStorage, FunctionKind, 2),     \* allowed
     AImport(StrEthereum, StrGetCallDataSize, FunctionKind, 3), \* allowed
     AImport(StrDebug, StrPrint, FunctionKind, 0),            \* no parameters
     AImport(StrDebug, StrPrint, FunctionKind, 2),            \* one parameter short
     AImport(StrDebug, StrPrintStorage, FunctionKind, 1),     \* one parameter more
     AImport(StrDebug, StrPrint, FunctionKind, 4),            \* second parameter differs
     AImport(StrEthereum, StrGetCallDataSize, FunctionKind, 0), \* result missing
     AImport(StrEthereum, StrPrint, FunctionKind, 1),         \* field of the other table
     AImport(StrDebug, StrFoo, FunctionKind, 1),              \* unknown field
     AImport(StrEnv, StrPrint, FunctionKind, 1),              \* unknown module
     AImport(StrDebug, StrPrint, FunctionKind, 9),            \* no such type
     AImport(StrEnv, StrPrint, TableKind, 0)}                 \* not a function

ImpSections ==
    {<<>>} \cup {<<ImportSec(ims)>> : ims \in (SeqsUpTo(ImpEntries, MaxImports) \ {<<>>})}

ImpInputs ==
    {[hdr |-> "ok",
      secs |-> <<ImpTypeSec>> \o i \o <<FuncSec(<<0>>)>>
               \o <<ExportSec(<<ExMain(k), ExMemory(0, FALSE)>>, 0)>>] :
        i \in ImpSections, k \in 0..MaxImports}

InitImp ==
    /\ amod \in ImpInputs
    /\ inbuf = AModBytes(amod)
    /\ cap = Len(inbuf)
    /\ pos = 0
    /\ vm \in {NewValModule(ov) : ov \in BOOLEAN}
    /\ pc = "new" /\ ret = "none" /\ verr = "none"
    /\ CodecIdle
    /\ GeneralIdle

SpecImp == InitImp /\ [][Next]_vars


\* ---- Validate on imports (specification SpecImp)

\* the imports of the input (positions from 1) that do not conform, and the
\* first of them
ABadImports(am) == {j \in 1..Len(AImports(am)) : ~AImportAllowed(am, AImports(am)[j])}
AFirstBadImport(am) ==
    AImports(am)[CHOOSE j \in ABadImports(am) : \A k \in ABadImports(am) : j <= k]

\* C14: Validate never returns success for a module with an import of kind
\* table, memory or global; and when the module has no Start section,
\* satisfies the export predicates, and its first non-conforming import is
\* not a function import, Validate returns errImportNotFunc.
C14_NonFuncImport ==
    pc = "validated" =>
        /\ (\E j \in 1..Len(AImports(amod)) : AImports(amod)[j].kind # FunctionKind)
               => verr # "nil"
        /\ (/\ CountPassed /\ MainConforms /\ MemoryConforms
            /\ ABadImports(amod) # {}
            /\ AFirstBadImport(amod).kind # FunctionKind)
               => verr = "errImportNotFunc"

\* "main" conforms and is a function defined in the module
MainLocal ==
    /\ MainConforms
    /\ ToInt(VmExport(StrMain).Index) >= Len(AImports(amod))

\* C15: Validate accepts a function import if and only if its type index is
\* below the number of types, its module is "debug" or "ethereum", its field
\* is a key of that module's table, and the parameters and results of its
\* type equal the table's, element for element; any other function import
\* makes it return errImportFunc.  (Stated for the import the loop stops at:
\* the first import that does not conform.)
C15_ImportAccepted ==
    (CountPassed /\ MainLocal /\ MemoryConforms) =>
        verr = IF ABadImports(amod) = {} THEN "nil"
               ELSE IF AFirstBadImport(amod).kind = FunctionKind THEN "errImportFunc"
               ELSE "errImportNotFunc"

\* a module with two allowed imports, one of each table, has been accepted,
C15_Witness ==
    /\ CountPassed /\ MainLocal /\ MemoryConforms
    /\ Len(AImports(amod)) = 2
    /\ AImports(amod)[1].module = StrDebug /\ AImports(amod)[2].module = StrEthereum
    /\ ABadImports(amod) = {}
    /\ verr = "nil"


\* ---- ValModule (specification Spec): the strict-mode flag

\* the input without its Custom sections
ANoCustom(am) == [am EXCEPT !.secs = SelectSeq(am.secs, LAMBDA a : a.id # UnknownID)]

\* ReadValModule, output enabled, on the input without its Custom sections
\* (in an array with as much spare capacity as inbuf's)
RunNoCustom ==
    ReadValModule(AModBytes(ANoCustom(amod)),
                  Len(AModBytes(ANoCustom(amod))) + (cap - Len(inbuf)),
                  NewValModule(FALSE))

\* C20: in strict mode (OnlyValidate) Validate returns errHasCustom for every
\* module that had a Custom section and no Start section; with the flag
\* clear, Custom sections do not change Validate's result: it is the one the
\* same input without its Custom sections gets.
C20_StrictCustom ==
    pc = "validated" =>
        /\ (vm.OnlyValidate /\ AHas(amod, UnknownID) /\ ~AHas(amod, StartID))
               => verr = "errHasCustom"
        /\ (~vm.OnlyValidate /\ AHas(amod, UnknownID))
               => RunNoCustom.ret = "nil" /\ Validate(RunNoCustom.m) = verr

\* a module with a Custom section that is accepted with the flag clear has
\* been validated, and so has one with the flag set
C20_Witness ==
    /\ pc = "validated"
    /\ AHas(amod, UnknownID) /\ ~AHas(amod, StartID) /\ vm.bCustom
    /\ \/ vm.OnlyValidate /\ verr = "errHasCustom" /\ Len(vm.exp) = 2
       \/ ~vm.OnlyValidate /\ verr = "nil" /\ Validate(RunNoCustom.m) = "nil"


\* ---------------------------------------------------- the general decoder
TableID == 4
MemoryID == 5
GlobalID == 6
ElementID == 9
CodeID == 10
DataID == 11

Op_i32_const == 65
Op_i64_const == 66
Op_end == 11

\* &io.LimitedReader{R: r, N: n} over the reader st, as the reader that reads
\* through both: a read is cut by the smaller budget and ends at EOF when
\* either is used up
Limit(st, n) == Rd(st.pos, IF st.N = Unlimited THEN n ELSE Min(n, st.N))

\* the N of the limited reader made by Limit(st, n), after reads through it
\* have moved the position to p
LimitN(st, n, p) == n - (p - st.pos)

\* the reader st after reads through a limited reader over it have moved the
\* position to p
Outer(st, p) == Rd(p, IF st.N = Unlimited THEN Unlimited ELSE st.N - (p - st.pos))

\* decoder.readVarI32
readVarI32(s, d, old) ==
    LET got(r) == [d |-> Dec(r.err, r.st), v |-> ToInt32(r.v)]
    IN IF d.err # "nil" THEN [d |-> d, v |-> old] ELSE got(varint(s, d.st))

\* decoder.readInitExpr: v is ie.Expr
readInitExpr(s, d, old) ==
    LET last(e, b) ==
            IF b.err # "nil" THEN [d |-> Dec(b.err, b.st), v |-> e.v]
            ELSE [d |-> Dec(IF b.b # Op_end THEN "errOpEnd" ELSE e.d.err, b.st), v |-> e.v]
        operand(e) == last(e, ReadByte(s, e.d.st))
        opcode(b) ==
            IF b.err # "nil" THEN [d |-> Dec(d.err, b.st), v |-> old]
            ELSE IF b.b = Op_i32_const \/ b.b = Op_i64_const
                 THEN operand(readVarI32(s, Dec(d.err, b.st), old))
                 ELSE operand([d |-> Dec("errInvOp", b.st), v |-> old])
    IN IF d.err # "nil" THEN [d |-> d, v |-> old] ELSE opcode(ReadByte(s, d.st))

\* decoder.readGlobalVariable
readGlobalVariable(s, d) ==
    LET init(t, e) == [d |-> e.d, v |-> [Type |-> t.v, Init |-> e.v]]
        type(t) == init(t, readInitExpr(s, t.d, 0))
    IN IF d.err # "nil" THEN [d |-> d, v |-> [Type |-> [ZeroTyp EXCEPT !.tag = "GlobalType"], Init |-> 0]]
       ELSE type(readGlobalType(s, d))

\* readElemSegment: the loop over es.Elems
RECURSIVE readElems(_, _, _, _)
readElems(s, d, n, acc) ==
    LET next(e) == readElems(s, e.d, n, Append(acc, e.v))
    IN IF Len(acc) >= n \/ d.err # "nil" THEN [d |-> d, v |-> Slice(n, acc)]
       ELSE next(readVarU32(s, d, U32Zero))

\* decoder.readElemSegment
readElemSegment(s, d) ==
    LET elems(i, o, e) == [d |-> e.d, v |-> [Index |-> i.v, Offset |-> o.v, Elems |-> e.v]]
        size(i, o, n) == elems(i, o, readElems(s, n.d, ToInt(n.v), <<>>))
        offset(i, o) == size(i, o, readVarU32(s, o.d, U32Zero))
        index(i) == offset(i, readInitExpr(s, i.d, 0))
    IN IF d.err # "nil" THEN [d |-> d, v |-> [Index |-> U32Zero, Offset |-> 0, Elems |-> NilSlice]]
       ELSE index(readVarU32(s, d, U32Zero))

\* decoder.readLocalEntry
readLocalEntry(s, d) ==
    LET type(c, t) == [d |-> t.d, v |-> [Count |-> c.v, Type |-> t.v]]
        count(c) == type(c, readValueType(s, c.d, 0))
    IN IF d.err # "nil" THEN [d |-> d, v |-> [Count |-> U32Zero, Type |-> 0]]
       ELSE count(readVarU32(s, d, U32Zero))

\* readFunctionBody: the loop over fb.Locals
RECURSIVE readLocals(_, _, _, _)
readLocals(s, d, n, acc) ==
    LET next(e) == readLocals(s, e.d, n, Append(acc, e.v))
    IN IF Len(acc) >= n \/ d.err # "nil" THEN [d |-> d, v |-> Slice(n, acc)]
       ELSE next(readLocalEntry(s, d))

\* ioutil.ReadAll(r): the bytes up to the reader's EOF, and the reader there
ReadAll(s, st) ==
    LET n == IF st.N = Unlimited THEN Len(s) - st.pos
             ELSE Min(st.N, Len(s) - st.pos)
        k == IF n < 0 THEN 0 ELSE n
    IN [data |-> SubSeq(s, st.pos + 1, st.pos + k),
        st |-> Rd(st.pos + k, IF st.N = Unlimited THEN Unlimited ELSE st.N - k)]

\* decoder.readFunctionBody: the locals and the code are read through
\* io.LimitReader(r, BodySize), and d.err is assigned ReadAll's error, nil
readFunctionBody(s, d) ==
    LET code(b, l, c) ==
            [d |-> Dec("nil", Outer(b.d.st, c.st.pos)),
             v |-> [BodySize |-> b.v, Locals |-> l.v, Code |-> c.data]]
        locals(b, l) == code(b, l, ReadAll(s, l.d.st))
        count(b, n) == locals(b, readLocals(s, n.d, ToInt(n.v), <<>>))
        size(b) == count(b, readVarU32(s, Dec(b.d.err, Limit(b.d.st, ToInt(b.v))), U32Zero))
    IN IF d.err # "nil" THEN [d |-> d, v |-> [BodySize |-> U32Zero, Locals |-> NilSlice, Code |-> <<>>]]
       ELSE size(readVarU32(s, d, U32Zero))

\* decoder.readDataSegment
readDataSegment(s, d) ==
    LET data(i, o, n, b) ==
            [d |-> b.d, v |-> [Index |-> i.v, Offset |-> o.v, Data |-> Str(ToInt(n.v), b.data)]]
        size(i, o, n) == data(i, o, n, read(s, n.d, ToInt(n.v)))
        offset(i, o) == size(i, o, readVarU32(s, o.d, U32Zero))
        index(i) == offset(i, readInitExpr(s, i.d, 0))
    IN IF d.err # "nil" THEN [d |-> d, v |-> [Index |-> U32Zero, Offset |-> 0, Data |-> EmptyStr]]
       ELSE index(readVarU32(s, d, U32Zero))

\* The entry loops of the Table, Memory, Global, Element, Code and Data
\* sections: s.items[i] for i up to n, read by the section's entry reader
RECURSIVE readItems(_, _, _, _, _)
readItems(s, d, id, n, acc) ==
    LET next(e) == readItems(s, e.d, id, n, Append(acc, e.v))
    IN IF Len(acc) >= n \/ d.err # "nil" THEN [d |-> d, v |-> Slice(n, acc)]
       ELSE CASE id = TableID -> next(readTableType(s, d))
              [] id = MemoryID -> next(readMemoryType(s, d))
              [] id = GlobalID -> next(readGlobalVariable(s, d))
              [] id = ElementID -> next(readElemSegment(s, d))
              [] id = CodeID -> next(readFunctionBody(s, d))
              [] OTHER -> next(readDataSegment(s, d))

\* decoder.readTableSection, readMemorySection, readGlobalSection,
\* readElementSection, readCodeSection and readDataSection: a count, then the
\* entries
readItemSection(s, d, id) ==
    LET count(n) == readItems(s, n.d, id, ToInt(n.v), <<>>)
    IN IF d.err # "nil" THEN [d |-> d, v |-> NilSlice]
       ELSE count(readVarU32(s, d, U32Zero))

\* decoder.readStartSection
readStartSection(s, d) ==
    IF d.err # "nil" THEN [d |-> d, v |-> U32Zero] ELSE readVarU32(s, d, U32Zero)

StrName == <<110, 97, 109, 101>>

\* readNameSection, type 1: the loop over s.FuncName
RECURSIVE readFuncNames(_, _, _, _)
readFuncNames(s, d, n, acc) ==
    LET name(i, nm) == readFuncNames(s, nm.d, n, Append(acc, [Idx |-> i.v, Name |-> nm.v]))
        idx(i) == name(i, readString(s, i.d, EmptyStr))
    IN IF Len(acc) >= n \/ d.err # "nil" THEN [d |-> d, v |-> Slice(n, acc)]
       ELSE idx(readVarU32(s, d, U32Zero))

\* readNameSection: the switch on nType, read through the limited reader rr
\* (d.st); ns is the NameSection
nameSubsection(s, d, nType, ns) ==
    LET modName(nm) == [d |-> nm.d, v |-> [ns EXCEPT !.ModName = nm.v]]
        funcNames(f) == [d |-> f.d, v |-> [ns EXCEPT !.FuncName = f.v]]
        count(n) == funcNames(readFuncNames(s, n.d, ToInt(n.v), <<>>))
    IN CASE nType = 0 -> modName(readString(s, d, ns.ModName))
         [] nType = 1 -> count(readVarU32(s, d, U32Zero))
         [] OTHER -> [d |-> d, v |-> ns]

\* decoder.readNameSection: d.st is the section's limited reader r
RECURSIVE readNameSection(_, _, _)
readNameSection(s, d, ns) ==
    LET again(sz, b, rest) == readNameSection(s, Dec(rest.d.err, Outer(sz.d.st, rest.d.st.pos)), b.v)
        unread(sz, b) ==
            IF LimitN(sz.d.st, ToInt(sz.v), b.d.st.pos) > 0
            THEN again(sz, b, read(s, b.d, LimitN(sz.d.st, ToInt(sz.v), b.d.st.pos)))
            ELSE again(sz, b, b)
        size(t, sz) ==
            IF sz.d.err # "nil" THEN [d |-> sz.d, v |-> ns]
            ELSE unread(sz, nameSubsection(s, Dec("nil", Limit(sz.d.st, ToInt(sz.v))),
                                           ToInt(t.v), ns))
        type(t) ==
            IF t.d.err # "nil" THEN [d |-> t.d, v |-> ns]
            ELSE size(t, readVarU32(s, t.d, U32Zero))
    IN IF d.err # "nil" THEN [d |-> d, v |-> ns]
       ELSE type(readVarU7(s, d, U32Zero))

\* A Section value is [ID, v]: the section type it holds, named by the ID()
\* of that type, and the section; NilID is the nil interface
NilID == -1
Sec(id, v) == [ID |-> id, v |-> v]
NilSection == Sec(NilID, <<>>)

ZeroNameSection == [Name |-> EmptyStr, Size |-> 0, ModName |-> EmptyStr, FuncName |-> NilSlice]

\* decoder.readSection, the case UnknownID
readCustomSection(s, d) ==
    LET names(n) == [d |-> n.d, sec |-> Sec(UnknownID, n.v)]
        name(nm) ==
            IF StrEq(nm.v, StrName)
            THEN names(readNameSection(s, nm.d, [ZeroNameSection EXCEPT !.Name = nm.v,
                                                                         !.Size = nm.d.st.N]))
            ELSE [d |-> nm.d,
                  sec |-> Sec(UnknownID, [ZeroNameSection EXCEPT !.Name = nm.v,
                                                                 !.Size = nm.d.st.N])]
    IN name(readString(s, d, EmptyStr))

\* decoder.readSection, the switch: d.st is the limited reader r.  [d, sec]
readSectionBody(s, d, id) ==
    LET as(t) == [d |-> t.d, sec |-> Sec(id, t.v)]
    IN CASE id = UnknownID -> readCustomSection(s, d)
         [] id = TypeID -> as(readTypeSection(s, d, NilSlice))
         [] id = ImportID -> as(readImportSection(s, d, NilSlice))
         [] id = FunctionID -> as(readFunctionSection(s, d, NilSlice))
         [] id \in {TableID, MemoryID, GlobalID, ElementID, CodeID, DataID}
                -> as(readItemSection(s, d, id))
         [] id = ExportID -> as(readExportSection(s, d, NilSlice))
         [] id = StartID -> as(readStartSection(s, d))
         [] OTHER -> [d |-> Dec("errInvalidSection", d.st), sec |-> NilSection]

\* Mutation: unread bytes of a section are an error, as in the canonicalizer.
readSection_mutUnreadIsError(s, d) ==
    LET back(dd, sec) ==
            [d |-> Dec(dd.err, Rd(dd.st.pos, Unlimited)), sec |-> sec, panic |-> FALSE]
        unread(b) ==
            IF b.d.st.N # 0
            THEN IF b.sec.ID = NilID
                 THEN [d |-> Dec(b.d.err, Rd(b.d.st.pos, Unlimited)), sec |-> b.sec,
                       panic |-> TRUE]
                 ELSE back(Dec("errReadSection", b.d.st), b.sec)
            ELSE back(b.d, b.sec)
        size(id, sz) ==
            unread(readSectionBody(s, Dec(sz.d.err, Rd(sz.d.st.pos, ToInt(sz.v))), ToInt(id.v)))
        ident(id) ==
            IF id.d.err # "nil"
            THEN back(Dec(IF id.d.err = "EOF" THEN "nil" ELSE id.d.err, id.d.st), NilSection)
            ELSE size(id, readVarU32(s, id.d, U32Zero))
    IN ident(readVarU7(s, d, U32Zero))

\* decoder.readSection on the decoder d over the file s: [d, sec, panic];
\* panic is the call sec.ID() on the nil interface in the unread-bytes branch
readSection(s, d) ==
    LET back(dd, sec) ==
            [d |-> Dec(dd.err, Rd(dd.st.pos, Unlimited)), sec |-> sec, panic |-> FALSE]
        skip(b, rest) == back(rest.d, b.sec)
        unread(b) ==
            IF b.d.st.N # 0
            THEN IF b.sec.ID = NilID
                 THEN [d |-> Dec(b.d.err, Rd(b.d.st.pos, Unlimited)), sec |-> b.sec,
                       panic |-> TRUE]
                 ELSE skip(b, read(s, b.d, b.d.st.N))
            ELSE back(b.d, b.sec)
        size(id, sz) ==
            unread(readSectionBody(s, Dec(sz.d.err, Rd(sz.d.st.pos, ToInt(sz.v))), ToInt(id.v)))
        ident(id) ==
            IF id.d.err # "nil"
            THEN back(Dec(IF id.d.err = "EOF" THEN "nil" ELSE id.d.err, id.d.st), NilSection)
            ELSE size(id, readVarU32(s, id.d, U32Zero))
    IN ident(readVarU7(s, d, U32Zero))

\* decoder.readHeader: binary.Read fills the 8-byte header with io.ReadFull
\* (io.EOF when no byte is left, io.ErrUnexpectedEOF when fewer than 8 are),
\* then the magic is compared.  v is the header read
readHeader(s, d, old) ==
    LET left == Len(s) - d.st.pos
    IN IF d.err # "nil" THEN [d |-> d, v |-> old]
       ELSE IF left <= 0 THEN [d |-> Dec("EOF", d.st), v |-> old]
       ELSE IF left < 8
            THEN [d |-> Dec("ErrUnexpectedEOF", Rd(Len(s), Unlimited)), v |-> old]
       ELSE [d |-> Dec(IF SubSeq(s, d.st.pos + 1, d.st.pos + 4) # magicWASM
                       THEN "errInvalidMagic" ELSE "nil",
                       Rd(d.st.pos + 8, Unlimited)),
             v |-> SubSeq(s, d.st.pos + 1, d.st.pos + 8)]

\* ---- the general decoder: inputs
MaxOpenSections == 2

RawSec(id, raw) == ASec(id, <<>>, <<>>, <<>>, <<>>, raw, 0)

\* Custom "name": a module name "m", then the function names [(0, "f")]
NameSec == RawSec(UnknownID, EncStr(StrName) \o <<0, 2, 1, 109>> \o <<1, 4, 1, 0, 1, 102>>)
\* one table of anyfunc, limits {0, 1}
TableSec == RawSec(TableID, <<1, 112, 0, 1>>)
MemorySec == RawSec(MemoryID, <<1, 0, 1>>)
\* one immutable i32 global, i32.const 0
GlobalSec == RawSec(GlobalID, <<1, 127, 0, Op_i32_const, 0, Op_end>>)
\* one segment of table 0 at i32.const 0 holding function 0
ElementSec == RawSec(ElementID, <<1, 0, Op_i32_const, 0, Op_end, 1, 0>>)
\* one body of two bytes: no locals, end
CodeSec == RawSec(CodeID, <<1, 2, 0, Op_end>>)
\* one segment of memory 0 at i32.const 0 holding one byte
DataSec == RawSec(DataID, <<1, 0, Op_i32_const, 0, Op_end, 1, 7>>)
\* identifier 12 with an empty and with a one-byte payload, and an identifier
\* byte with the continuation bit set
BadIdSec == RawSec(12, <<>>)
BadIdSec1 == RawSec(12, <<0>>)
LongIdSec == RawSec(128, <<>>)
\* one type whose single parameter has the type byte 0
ZeroTypeSec == ASec(TypeID, <<AFuncType(<<0>>, <<>>)>>, <<>>, <<>>, <<>>, <<>>, 0)

\* a Custom section whose name declares 4 bytes, 2 of them inside the
\* section, and a Data section whose segment declares 3 bytes, 1 of them
\* inside the section
ShortNameSec == RawSec(UnknownID, <<4, 110, 97>>)
ShortDataSec == RawSec(DataID, <<1, 0, Op_i32_const, 0, Op_end, 3, 7>>)

OpenSecChoices ==
    {CustomSec, NameSec, ShortNameSec, ShortDataSec, TypeSec(0), TypeSec(1), TypeSec(2),
     ImportSec(<<AImport(StrDebug, StrPrint, FunctionKind, 1)>>),
     FuncSec(<<0>>), TableSec, MemorySec, GlobalSec,
     ExportSec(<<ExMain(0), ExMemory(0, FALSE)>>, 0), StartSec(0), StartSec(1),
     ElementSec, CodeSec, DataSec, BadIdSec, BadIdSec1, LongIdSec, ZeroTypeSec}

\* a header, well-formed or of another magic, and up to MaxOpenSections
\* sections
OpenModules ==
    {[hdr |-> h, secs |-> ss] :
        h \in {"ok", "badmagic"},
        ss \in UNION {[1..n -> OpenSecChoices] : n \in 0..MaxOpenSections}}

\* the files: every prefix of the bytes of such a module
Prefixes(s) == {SubSeq(s, 1, k) : k \in 0..Len(s)}

\* ---- the general decoder: the specification
InitOpen ==
    /\ amod \in OpenModules
    /\ inbuf \in Prefixes(AModBytes(amod))
    /\ cap = Len(inbuf) /\ pos = 0
    /\ vm = NewValModule(FALSE) /\ pc = "idle" /\ ret = "none" /\ verr = "none"
    /\ CodecIdle
    /\ gd = Dec("nil", Rd(0, Unlimited)) /\ gm = NewModule /\ gpc = "new" /\ gret = "none"

\* readModule up to its loop: decoder.readHeader, whose error is not tested
ReadModuleHeader ==
    /\ gpc = "new"
    /\ \E h \in {readHeader(inbuf, gd, gm.Header)} :
       /\ gd' = h.d
       /\ gm' = [gm EXCEPT !.Header = h.v]
    /\ gpc' = "sections"
    /\ UNCHANGED gret
    /\ UNCHANGED mvars
    /\ UNCHANGED cvars

\* One turn of readModule's loop: readSection, then the append or the return
ReadModuleSection ==
    /\ gpc = "sections"
    /\ \E r \in {readSection(inbuf, gd)} :
       /\ gd' = r.d
       /\ IF r.panic THEN gpc' = "returned" /\ gret' = "panic" /\ gm' = gm
          ELSE IF r.sec.ID = NilID THEN gpc' = "returned" /\ gret' = r.d.err /\ gm' = gm
          ELSE gpc' = "sections" /\ gret' = gret /\ gm' = [gm EXCEPT !.Sections = Append(@, r.sec)]
    /\ UNCHANGED mvars
    /\ UNCHANGED cvars

NextOpen == ReadModuleHeader \/ ReadModuleSection

SpecOpen == InitOpen /\ [][NextOpen]_vars


\* ---- the general decoder (specification SpecOpen): claims

\* ReadValModule, output enabled, on the same file
OnFile == ReadValModule(inbuf, Len(inbuf), NewValModule(FALSE))

\* the file has no header: it is shorter than 8 bytes or starts with other
\* bytes than the magic
NoHeader == Len(inbuf) < 8 \/ SubSeq(inbuf, 1, 4) # magicWASM

\* C16: for every input whose first 4 bytes differ from the magic, or that is
\* shorter than the 8-byte header (the empty input included), readModule
\* returns a non-nil error and ReadValModule returns errHead.
C16_Header ==
    (gpc = "returned" /\ NoHeader) => (gret # "nil" /\ OnFile.ret = "errHead")

\* the positions of the file at which a section identifier starts, or would
\* start after the last section
Boundaries(am) ==
    {Len(AHeaderBytes(am.hdr)) + Len(Flatten([i \in 1..k |-> ASecBytes(am.secs[i])])) :
        k \in 0..Len(am.secs)}

\* the file has its header and ends inside a section: after an identifier
\* byte, inside the length prefix or inside the payload
MidSection ==
    /\ ~NoHeader
    /\ Len(inbuf) \notin Boundaries(amod)

\* C17: when the input ends inside a section - after a byte of an identifier
\* has been read - neither readModule nor ReadValModule returns nil: the end
\* of the input is the normal end only where a section identifier would start.
C17_EndOfInput ==
    (gpc = "returned" /\ MidSection) => (gret # "nil" /\ OnFile.ret # "nil")

\* the file is the whole of a module with a well-formed header
Complete == amod.hdr = "ok" /\ inbuf = AModBytes(amod)

\* C18: when readModule returns a non-nil error the Module it returns holds no
\* section, and when it returns nil the Module holds as many sections as the
\* input has.
C18_ResultOrError ==
    gpc = "returned" =>
        /\ gret \notin {"nil", "panic"} => gm.Sections = <<>>
        /\ (gret = "nil" /\ Complete) => Len(gm.Sections) = Len(amod.secs)

\* C19: for an input readModule accepts, Module.Sections holds one Section per
\* section of the input, in the input's order and each of the type its
\* identifier names, also after a Custom "name" section.
C19_OnePerSection ==
    (gpc = "returned" /\ gret = "nil" /\ Complete) =>
        [i \in 1..Len(gm.Sections) |-> gm.Sections[i].ID]
            = [i \in 1..Len(amod.secs) |-> amod.secs[i].id]


\* ------------------------------------------ the decoder's sticky error
\* The read operations of a decoder, called on a decoder whose error is nil
\* or already set; readInitExpr and readFunctionBody are taken statement by
\* statement.  cdec is [d, e0, b, n, outer]: the decoder and the reader it is
\* handed, the error it started with, the opcode byte, BodySize, and the
\* reader under the limited one.
MaxStickyLen == 3

StickyBytes == {0, 1, 5, Op_end, Op_i32_const, 128}
StickySources == SeqsUpTo(StickyBytes, MaxStickyLen)

\* the operations taken in one step
StickyCalls ==
    {"readVarU7", "readVarI7", "readVarU32", "readVarI32", "read", "readString",
     "readValueType", "readTypeSection", "readImportSection", "readFunctionSection",
     "readExportSection", "readStartSection", "readGlobalSection"}

StickyOps == StickyCalls \cup {"readInitExpr", "readFunctionBody"}

StickyDec(d, b, n, outer) == [d |-> d, e0 |-> d.err, b |-> b, n |-> n, outer |-> outer]

InitSticky ==
    /\ cmode \in StickyOps /\ cv = U32Zero /\ csrc \in StickySources /\ cenc = <<>>
    /\ cdec \in {StickyDec(Dec(e, Rd(0, Unlimited)), 0, 0, Rd(0, Unlimited)) :
                    e \in {"nil", "errMalform"}}
    /\ cpc = "call"
    /\ ModuleIdle
    /\ GeneralIdle

\* the decoder after the operation op on the decoder d over the bytes s
callResult(s, d, op) ==
    LET of(r) == r.d
    IN CASE op = "readVarU7" -> of(readVarU7(s, d, U32Zero))
         [] op = "readVarI7" -> of(readVarI7(s, d, 0))
         [] op = "readVarU32" -> of(readVarU32(s, d, U32Zero))
         [] op = "readVarI32" -> of(readVarI32(s, d, 0))
         [] op = "read" -> of(read(s, d, 2))
         [] op = "readString" -> of(readString(s, d, EmptyStr))
         [] op = "readValueType" -> of(readValueType(s, d, 0))
         [] op = "readTypeSection" -> of(readTypeSection(s, d, NilSlice))
         [] op = "readImportSection" -> of(readImportSection(s, d, NilSlice))
         [] op = "readFunctionSection" -> of(readFunctionSection(s, d, NilSlice))
         [] op = "readExportSection" -> of(readExportSection(s, d, NilSlice))
         [] op = "readStartSection" -> of(readStartSection(s, d))
         [] OTHER -> of(readItemSection(s, d, GlobalID))

\* a read primitive or a section sub-decoder, called once
CallRead ==
    /\ cpc = "call" /\ cmode \in StickyCalls
    /\ cdec' = [cdec EXCEPT !.d = callResult(csrc, cdec.d, cmode)]
    /\ cpc' = "done"
    /\ UNCHANGED <<cmode, cv, csrc, cenc>>
    /\ UNCHANGED mvars
    /\ UNCHANGED gvars

\* readInitExpr: the test of d.err and the read of the opcode byte
InitExprOpcode ==
    /\ cpc = "call" /\ cmode = "readInitExpr"
    /\ IF cdec.d.err # "nil" THEN cpc' = "done" /\ cdec' = cdec
       ELSE \E b \in {ReadByte(csrc, cdec.d.st)} :
               IF b.err # "nil"
               THEN cpc' = "done" /\ cdec' = [cdec EXCEPT !.d = Dec(cdec.d.err, b.st)]
               ELSE cpc' = "opcode"
                    /\ cdec' = [cdec EXCEPT !.d = Dec(cdec.d.err, b.st), !.b = b.b]
    /\ UNCHANGED <<cmode, cv, csrc, cenc>>
    /\ UNCHANGED mvars
    /\ UNCHANGED gvars

\* readInitExpr: the switch on the opcode
InitExprOperand ==
    /\ cpc = "opcode" /\ cmode = "readInitExpr"
    /\ IF cdec.b = Op_i32_const \/ cdec.b = Op_i64_const
       THEN cdec' = [cdec EXCEPT !.d = readVarI32(csrc, cdec.d, 0).d]
       ELSE cdec' = [cdec EXCEPT !.d = Dec("errInvOp", cdec.d.st)]
    /\ cpc' = "end"
    /\ UNCHANGED <<cmode, cv, csrc, cenc>>
    /\ UNCHANGED mvars
    /\ UNCHANGED gvars

\* readInitExpr: the read of the end opcode and its test
InitExprEnd ==
    /\ cpc = "end" /\ cmode = "readInitExpr"
    /\ \E b \in {ReadByte(csrc, cdec.d.st)} :
          cdec' = [cdec EXCEPT !.d =
                      IF b.err # "nil" THEN Dec(b.err, b.st)
                      ELSE Dec(IF b.b # Op_end THEN "errOpEnd" ELSE cdec.d.err, b.st)]
    /\ cpc' = "done"
    /\ UNCHANGED <<cmode, cv, csrc, cenc>>
    /\ UNCHANGED mvars
    /\ UNCHANGED gvars

\* readFunctionBody: the test of d.err and the read of BodySize
BodySize ==
    /\ cpc = "call" /\ cmode = "readFunctionBody"
    /\ IF cdec.d.err # "nil" THEN cpc' = "done" /\ cdec' = cdec
       ELSE \E r \in {readVarU32(csrc, cdec.d, U32Zero)} :
               /\ cdec' = [cdec EXCEPT !.d = r.d, !.n = ToInt(r.v)]
               /\ cpc' = "locals"
    /\ UNCHANGED <<cmode, cv, csrc, cenc>>
    /\ UNCHANGED mvars
    /\ UNCHANGED gvars

\* readFunctionBody: r = io.LimitReader(r, BodySize), the count of the
\* locals and the loop of readLocalEntry
BodyLocals ==
    /\ cpc = "locals" /\ cmode = "readFunctionBody"
    /\ \E n \in {readVarU32(csrc, Dec(cdec.d.err, Limit(cdec.d.st, cdec.n)), U32Zero)} :
          cdec' = [cdec EXCEPT !.d = readLocals(csrc, n.d, ToInt(n.v), <<>>).d,
                               !.outer = cdec.d.st]
    /\ cpc' = "code"
    /\ UNCHANGED <<cmode, cv, csrc, cenc>>
    /\ UNCHANGED mvars
    /\ UNCHANGED gvars

\* readFunctionBody: fb.Code, d.err = ioutil.ReadAll(r)
BodyCode ==
    /\ cpc = "code" /\ cmode = "readFunctionBody"
    /\ cdec' = [cdec EXCEPT !.d = Dec("nil", Outer(cdec.outer, ReadAll(csrc, cdec.d.st).st.pos))]
    /\ cpc' = "done"
    /\ UNCHANGED <<cmode, cv, csrc, cenc>>
    /\ UNCHANGED mvars
    /\ UNCHANGED gvars

NextSticky ==
    \/ CallRead
    \/ InitExprOpcode \/ InitExprOperand \/ InitExprEnd
    \/ BodySize \/ BodyLocals \/ BodyCode

SpecSticky == InitSticky /\ [][NextSticky]_vars

\* C21: once d.err is set, no later read of the decoder consumes input or
\* changes d.err: the error is neither cleared nor replaced.
C21_Sticky ==
    [][cdec.d.err # "nil" =>
          (cdec'.d.err = cdec.d.err /\ cdec'.d.st.pos = cdec.d.st.pos)]_vars

\* the part that holds: a read primitive or section sub-decoder called with
\* d.err set returns with the decoder as it was
StickyAtCall ==
    [][(cdec.d.err # "nil" /\ cpc = "call") =>
          (cdec'.d.err = cdec.d.err /\ cdec'.d.st.pos = cdec.d.st.pos)]_vars

\* the statement-by-statement readers end where the one-step operators do
StepsAgree ==
    (cpc = "done" /\ cmode \in {"readInitExpr", "readFunctionBody"}) =>
        cdec.d = IF cmode = "readInitExpr"
                 THEN readInitExpr(csrc, Dec(cdec.e0, Rd(0, Unlimited)), 0).d
                 ELSE readFunctionBody(csrc, Dec(cdec.e0, Rd(0, Unlimited))).d


\* ---- ValModule (specification Spec): run-time faults of Validate

\* C22: for every ValModule that ReadValModule built without error, Validate
\* returns nil or one of its errors; it does not fault at run time, also when
\* a Function-section entry names a type the Type section does not have or
\* when the Type, Import or Function section is absent.
C22_NoFault ==
    pc = "validated" => verr # "panic"


\* ---- ValModule (specification Spec): the caller's buffer

\* C23: ReadValModule does not modify the caller's input buffer: when it has
\* returned, every byte of inbuf has the value it had before the call.
C23_InputKept ==
    pc \in {"returned", "validated"} => inbuf = AModBytes(amod)


\* ---- the general decoder (specification SpecOpen): section bounds

\* the position at which the section that starts at position p of buf ends:
\* its identifier byte, its length prefix and the declared length further
SectionEnd(buf, p) == p + 1 + RefLebAt(buf, p + 2).n + RefLebAt(buf, p + 2).v

\* C24: the reads of a section are confined to it: readSection consumes no
\* byte beyond the section's declared length, and when it has processed a
\* section without error the reader is exactly at the section's start plus
\* its identifier byte, length prefix and declared length.
C24_Confined ==
    [][(gpc = "sections" /\ gpc' = "sections") =>
          /\ gd'.st.pos <= SectionEnd(inbuf, gd.st.pos)
          /\ gd'.err = "nil" => gd'.st.pos = SectionEnd(inbuf, gd.st.pos)]_vars

\* the part that holds: no byte beyond the declared length is consumed
ConfinedReads ==
    [][(gpc = "sections" /\ gpc' = "sections") =>
          gd'.st.pos <= SectionEnd(inbuf, gd.st.pos)]_vars

\* the same of the canonicalizer (specification Spec), which holds
ConfinedCanonical ==
    [][(pc = "sections" /\ pc' = "sections") => pos' = SectionEnd(inbuf, pos)]_vars


\* ---- the general decoder (specification SpecOpen): unread bytes

\* the file is a whole module of sections with valid identifiers, without a
\* "name" section, and one of them declares more bytes than its sub-decoder
\* reads
Padded ==
    /\ Complete
    /\ \A i \in 1..Len(amod.secs) : amod.secs[i].id <= DataID /\ amod.secs[i] # NameSec
    /\ \E i \in 1..Len(amod.secs) : amod.secs[i].pad > 0

\* C25: in the general decoder a section whose sub-decoder leaves bytes of
\* the declared length unread is no error: the bytes are discarded (the
\* reader stands at a section start after every section), the section is
\* appended, and decoding goes on with the next section to a nil error.
C25_UnreadDiscarded ==
    Padded =>
        /\ gpc = "sections" =>
               /\ gd.err = "nil"
               /\ gd.st.pos \in Boundaries(amod)
               /\ \A i \in 1..Len(gm.Sections) : gm.Sections[i].ID = amod.secs[i].id
        /\ gpc = "returned" =>
               /\ gret = "nil"
               /\ Len(gm.Sections) = Len(amod.secs)

\* a section with unread bytes and the section after it have both been
\* appended
C25_Witness ==
    /\ Padded /\ gpc = "returned" /\ gret = "nil"
    /\ Len(amod.secs) = 2 /\ amod.secs[1].pad > 0
    /\ Len(gm.Sections) = 2 /\ gm.Sections[2].ID = amod.secs[2].id


\* ---- the general decoder (specification SpecOpen): value types

\* the seven ValueType constants
ValueTypes ==
    {ValueI32, ValueI64, ValueF32, ValueF64, ValueAnyFunc, ValueFunc, ValueBlock}

Items(sl) == {sl.items[i] : i \in 1..Len(sl.items)}

\* the ValueTypes stored in a Section: forms, parameter and result types of a
\* Type section, content types of a Global section, local types of a Code
\* section
StoredValueTypes(sec) ==
    CASE sec.ID = TypeID ->
             UNION {{t.form} \cup Items(t.params) \cup Items(t.results) : t \in Items(sec.v)}
      [] sec.ID = GlobalID -> {g.Type.ContentType : g \in Items(sec.v)}
      [] sec.ID = CodeID -> UNION {{l.Type : l \in Items(b.Locals)} : b \in Items(sec.v)}
      [] OTHER -> {}

\* C26: every ValueType stored in a decoded model is one of the seven
\* constants: a type byte of any other value makes the decode fail instead
\* of producing a model value.
C26_ValueTypes ==
    (gpc = "returned" /\ gret = "nil" /\ Complete) =>
        \A i \in 1..Len(gm.Sections) : StoredValueTypes(gm.Sections[i]) \subseteq ValueTypes


\* ---- the decoder's read operations (specification SpecSticky): readInitExpr

\* the bytes s[1..p] are an initializer expression: the opcode i32.const or
\* i64.const, a signed varint (continuation bytes, then a byte below 128)
\* and the end opcode
IsInitExpr(s, p) ==
    /\ p >= 3 /\ p <= Len(s)
    /\ s[1] \in {Op_i32_const, Op_i64_const}
    /\ \A i \in 2..(p - 2) : s[i] >= 128
    /\ s[p - 1] < 128
    /\ s[p] = Op_end

\* C27: readInitExpr on a decoder without error leaves d.err nil only if it
\* has read an i32.const or i64.const opcode, a signed varint operand and the
\* end opcode; another opcode, a missing end opcode, and an expression that
\* is absent because the input ends before its opcode are errors.
C27_InitExpr ==
    (cpc = "done" /\ cmode = "readInitExpr" /\ cdec.e0 = "nil" /\ cdec.d.err = "nil")
        => IsInitExpr(csrc, cdec.d.st.pos)

\* the part that holds: once the opcode byte has been read, d.err is nil at
\* the end only for a whole expression
InitExprAfterOpcode ==
    (cpc = "done" /\ cmode = "readInitExpr" /\ cdec.e0 = "nil" /\ cdec.d.err = "nil"
     /\ csrc # <<>>)
        => IsInitExpr(csrc, cdec.d.st.pos)


\* ---- ValModule (specification Spec): the rebuilt Export section

\* one entry as the claim describes it: a name-length byte, the name, a kind
\* byte, the minimal unsigned varint of the index
RebuiltEntry(ep) ==
    <<ep.Field.len>> \o FieldBytes(ep.Field) \o <<ep.Kind>> \o RefEncode(ep.Index)

RebuiltEntries(exps) == Flatten([i \in 1..Len(exps) |-> RebuiltEntry(exps[i])])

\* sec is the well-formed Export section of the entries exps, and the export
\* sub-decoder reads exps back from exactly its declared length
IsRebuiltExport(sec, exps) ==
    LET n == RefLen(U32(Len(RebuiltEntries(exps)) + 1))
        back == readExportSection(sec, Dec("nil", Rd(1 + n, RefLebAt(sec, 2).v)), NilSlice)
    IN /\ sec = <<ExportID>> \o RefEncode(U32(Len(RebuiltEntries(exps)) + 1))
                   \o <<Len(exps)>> \o RebuiltEntries(exps)
       /\ RefLebAt(sec, 2).v = Len(sec) - (1 + n)
       /\ back.d.err = "nil" /\ back.d.st.N = 0 /\ back.d.st.pos = Len(sec)
       /\ back.v = Slice(Len(exps), exps)

\* C28: what readSection appends for an Export section, when output is
\* enabled and an entry is retained, is the well-formed section of the
\* retained entries: identifier 7, the minimal varint of 1 + the entry bytes,
\* the count byte, the entries; decoding it consumes the declared length and
\* gives the retained entries in order.
C28_RebuiltExport ==
    [][(/\ pc = "sections" /\ pc' = "sections"
        /\ inbuf[pos + 1] = ExportID
        /\ ~vm.OnlyValidate /\ vm'.exp # <<>>)
          => /\ SubSeq(Bytes(vm'), 1, Len(Bytes(vm))) = Bytes(vm)
             /\ IsRebuiltExport(SubSeq(Bytes(vm'), Len(Bytes(vm)) + 1, Len(Bytes(vm'))),
                                vm'.exp)]_vars

\* an Export section of three entries, one with its index in two bytes, was
\* the last section and has been rebuilt with the two retained entries
C28_Witness ==
    /\ pc = "returned" /\ ret = "nil" /\ ~vm.OnlyValidate
    /\ Len(vm.exp) = 2
    /\ amod.secs # <<>> /\ amod.secs[Len(amod.secs)].id = ExportID
    /\ Len(amod.secs[Len(amod.secs)].exports) = 3
    /\ \E k \in 1..Len(Bytes(vm)) :
          IsRebuiltExport(SubSeq(Bytes(vm), k, Len(Bytes(vm))), vm.exp)


\* ---- ValModule: Validate called twice
\* Validate on the receiver m: [err, m], what it returns and the ValModule
\* it leaves; the method assigns to no field of vm and calls no reader.
validateCall_mutDropsExports(m) == [err |-> Validate(m), m |-> [m EXCEPT !.exp = <<>>]]

validateCall(m) == [err |-> Validate(m), m |-> m]

\* The caller's first Validate() after a ReadValModule that returned nil
ValidateFirst ==
    /\ pc = "returned"
    /\ ret = "nil"
    /\ \E r \in {validateCall(vm)} : verr' = r.err /\ vm' = r.m
    /\ pc' = "validated"
    /\ UNCHANGED <<amod, inbuf, cap, pos, ret>>
    /\ UNCHANGED cvars
    /\ UNCHANGED gvars

\* A second Validate() on the same ValModule
ValidateAgain ==
    /\ pc = "validated"
    /\ \E r \in {validateCall(vm)} : verr' = r.err /\ vm' = r.m
    /\ pc' = "validated twice"
    /\ UNCHANGED <<amod, inbuf, cap, pos, ret>>
    /\ UNCHANGED cvars
    /\ UNCHANGED gvars

NextTwice == ReadHeader \/ ReadSection \/ ValidateFirst \/ ValidateAgain

SpecTwice == Init /\ [][NextTwice]_vars

Reread(b, cp) == ReadValModule(b, cp, NewValModule(FALSE))

\* C30: canonicalization is idempotent: when ReadValModule has succeeded
\* with output enabled, ReadValModule on a fresh ValModule over a copy of
\* Bytes() succeeds too and its Bytes() are the same bytes.
C30_Idempotent ==
    (pc = "returned" /\ ret = "nil" /\ ~vm.OnlyValidate) =>
        \A cp \in {Len(Bytes(vm)), Len(Bytes(vm)) + MaxCapSlack} :
            /\ Reread(Bytes(vm), cp).ret = "nil"
            /\ Bytes(Reread(Bytes(vm), cp).m) = Bytes(vm)


\* Reading the output again does succeed, and gives the same bytes whenever
\* the output holds at most one Export section.
RereadSucceeds ==
    (pc = "returned" /\ ret = "nil" /\ ~vm.OnlyValidate) =>
        \A cp \in {Len(Bytes(vm)), Len(Bytes(vm)) + MaxCapSlack} :
            /\ Reread(Bytes(vm), cp).ret = "nil"
            /\ OutCount(ExportID) <= 1 => Bytes(Reread(Bytes(vm), cp).m) = Bytes(vm)


\* ---- both readers run to their return (specification SpecRun)
\* What may follow the sections of a file: a section whose length prefix is
\* made of continuation bytes only, a Custom section whose name length is,
\* a Type section and a function-names sub-section whose count exceeds what
\* is left, a name sub-section declared longer than its section, an empty
\* sub-section of type 2, and an Export section of 100 entries of which two
\* are present.
RunTails ==
    {<<>>,
     <<TypeID, 128, 128, 128, 128, 128, 128>>,
     <<UnknownID, 3, 128, 128, 128>>,
     <<TypeID, 1, 127>>,
     <<UnknownID, 8>> \o EncStr(StrName) \o <<1, 1, 127>>,
     <<UnknownID, 7>> \o EncStr(StrName) \o <<0, 5>>,
     <<UnknownID, 9>> \o EncStr(StrName) \o <<2, 0, 2, 0>>,
     <<ExportID, 17, 100>> \o EncExport(ExMain(0)) \o EncExport(ExMemory(0, FALSE))}

\* the files: the prefixes of a module's bytes, and its bytes with a tail
RunFiles(am) == Prefixes(AModBytes(am)) \cup {AModBytes(am) \o t : t \in RunTails}

\* Either ReadValModule (output enabled or not) or readModule is started on
\* the file.
MaxRunSections == 1

InitRun ==
    /\ amod \in {am \in OpenModules : Len(am.secs) <= MaxRunSections}
    /\ inbuf \in RunFiles(amod)
    /\ cap = Len(inbuf) /\ pos = 0
    /\ ret = "none" /\ verr = "none"
    /\ CodecIdle
    /\ gd = Dec("nil", Rd(0, Unlimited)) /\ gm = NewModule /\ gret = "none"
    /\ \/ pc = "new" /\ gpc = "idle" /\ vm \in {NewValModule(ov) : ov \in BOOLEAN}
       \/ pc = "idle" /\ gpc = "new" /\ vm = NewValModule(FALSE)

NextRun == ReadHeader \/ ReadSection \/ ReadModuleHeader \/ ReadModuleSection

\* ENABLED <<ReadSection>>_vars written out: the loop is at a turn that
\* changes the state (it returns, or it moves the reader or the ValModule)
ReadSectionEnabled ==
    /\ pc = "sections"
    /\ \E r \in {vmReadSection(inbuf, pos, vm, cap)} :
          r.err # "nil" \/ <<r.s, r.pos, r.m>> # <<inbuf, pos, vm>>

\* ENABLED <<ReadModuleSection>>_vars written out: a turn returns or appends
ReadModuleSectionEnabled == gpc = "sections"

\* The running call is not suspended for ever: its next step is taken (weak
\* fairness of each action, for the two loop turns with ENABLED written out).
SpecRun ==
    /\ InitRun /\ [][NextRun]_vars
    /\ WF_vars(ReadHeader) /\ WF_vars(ReadModuleHeader)
    /\ ([]<>(~ReadSectionEnabled) \/ []<><<ReadSection>>_vars)
    /\ ([]<>(~ReadModuleSectionEnabled) \/ []<><<ReadModuleSection>>_vars)

\* C31: on every finite input ReadValModule and readModule eventually return,
\* a result or an error.
C31_Returns ==
    <>(\/ pc = "returned" /\ ret # "panic"
       \/ gpc = "returned" /\ gret # "panic")

\* Every call does come to an end: it returns or it panics.
Halts == <>(pc = "returned" \/ gpc = "returned")


\* ---- the general decoder (specification SpecOpen): strings and blobs
\* the length-prefixed strings and byte blobs stored in a Section
StoredStrings(sec) ==
    CASE sec.ID = UnknownID ->
             {sec.v.Name, sec.v.ModName} \cup {f.Name : f \in Items(sec.v.FuncName)}
      [] sec.ID = ImportID -> UNION {{e.Module, e.Field} : e \in Items(sec.v)}
      [] sec.ID = ExportID -> {e.Field : e \in Items(sec.v)}
      [] sec.ID = DataID -> {g.Data : g \in Items(sec.v)}
      [] OTHER -> {}

\* C32: a length-prefixed string or blob decoded without error holds exactly
\* its declared number of input bytes: none is short or zero-padded because
\* fewer bytes were left in its section.
C32_WholeStrings ==
    (gpc = "returned" /\ gret = "nil" /\ Complete) =>
        \A i \in 1..Len(gm.Sections) :
            \A str \in StoredStrings(gm.Sections[i]) : Len(str.data) = str.len

\* When every section holds all the bytes its strings declare, the strings
\* of the decoded Module hold the bytes of the input.
WholeWhenPresent ==
    (gpc = "returned" /\ gret = "nil" /\ Complete
        /\ \A i \in 1..Len(amod.secs) : amod.secs[i] \notin {ShortNameSec, ShortDataSec}) =>
        \A i \in 1..Len(gm.Sections) :
            \A str \in StoredStrings(gm.Sections[i]) : Len(str.data) = str.len


\* ---- the general decoder (specification SpecOpen): unknown identifiers
\* the file is a whole module one of whose sections has an identifier
\* (a one-byte varuint7) above Data
HasUnknownId ==
    /\ Complete
    /\ \E i \in 1..Len(amod.secs) : amod.secs[i].id \in (DataID + 1)..127

\* C33: a section whose identifier is outside 0..11 makes readModule and
\* ReadValModule return an error, whatever its declared length, and is not
\* added to the Module.
C33_UnknownId ==
    (gpc = "returned" /\ HasUnknownId) =>
        /\ gret \notin {"nil", "panic"}
        /\ OnFile.ret \notin {"nil", "panic"}
        /\ \A i \in 1..Len(gm.Sections) : gm.Sections[i].ID \in UnknownID..DataID

\* What the general decoder does do: it never returns nil on such a file nor
\* stores a section of such an identifier
UnknownIdNotStored ==
    (gpc = "returned" /\ HasUnknownId /\ \A i \in 1..Len(amod.secs) : amod.secs[i] # NameSec) =>
        /\ gret # "nil"
        /\ \A i \in 1..Len(gm.Sections) : gm.Sections[i].ID \in UnknownID..DataID


\* ---- the signed varint (specification SpecSigned)
\* int64 values as bit vectors in two's complement: 2^k, 2^k - 1, -(2^k) and
\* -(2^k) - 1 for every bit position k (2^63 wraps to the least int64)
I64Pow(k) == [j \in W64 |-> IF j = k THEN 1 ELSE 0]
I64PowLess1(k) == [j \in W64 |-> IF j < k THEN 1 ELSE 0]
I64NegPow(k) == [j \in W64 |-> IF j >= k THEN 1 ELSE 0]
I64NegPowLess1(k) == [j \in W64 |-> IF j = k THEN 0 ELSE 1]

SignedValues ==
    UNION {{I64Pow(k), I64PowLess1(k), I64NegPow(k), I64NegPowLess1(k)} : k \in W64}

I64Ones == [j \in W64 |-> 1]

\* x >> 7 of an int64 (arithmetic)
Sar7(x) == [j \in W64 |-> IF j + 7 <= 63 THEN x[j + 7] ELSE x[63]]

\* the minimal signed LEB128 encoding of an int64: groups of 7 bits, lowest
\* first, up to the first group after which only copies of its bit 6 remain
RECURSIVE EncSigned(_)
EncSigned(x) ==
    IF (Sar7(x) = I64Zero /\ x[6] = 0) \/ (Sar7(x) = I64Ones /\ x[6] = 1)
    THEN <<LowBits(x, 6)>>
    ELSE <<LowBits(x, 6) + 128>> \o EncSigned(Sar7(x))

InitSigned ==
    /\ cmode = "varint" /\ cv \in SignedValues /\ csrc = EncSigned(cv)
    /\ cenc = <<>> /\ cdec = NoResult /\ cpc = "init"
    /\ ModuleIdle
    /\ GeneralIdle

\* varint(r) over a reader of the source bytes
CallVarint ==
    /\ cpc = "init" /\ cmode = "varint"
    /\ cdec' = varint(csrc, Rd(0, Unlimited))
    /\ cpc' = "decoded"
    /\ UNCHANGED <<cmode, cv, csrc, cenc>>
    /\ UNCHANGED mvars
    /\ UNCHANGED gvars

NextSigned == CallVarint

SpecSigned == InitSigned /\ [][NextSigned]_vars

\* C34: for the minimal signed LEB128 encoding of every int64, varint returns
\* that integer, the number of bytes of the encoding and no error (no
\* Overflow: the encoding has at most 10 bytes and its 10th byte fits).
C34_Signed ==
    (cpc = "decoded" /\ cmode = "varint") =>
        /\ cdec.err = "nil"
        /\ cdec.v = cv
        /\ cdec.n = Len(csrc)

\* Every encoding of at most 9 bytes, and every 10-byte encoding of a
\* positive integer, is decoded to its integer.
SignedUpToNine ==
    (cpc = "decoded" /\ cmode = "varint" /\ (Len(csrc) <= 9 \/ cv[63] = 0)) =>
        /\ cdec.err = "nil"
        /\ cdec.v = cv
        /\ cdec.n = Len(csrc)

\* The single bytes 0x7f, 0x7e, 0x7d, 0x7c, 0x70, 0x60, 0x40 decode to the
\* ValueType constants -1, -2, -3, -4, -16, -32, -64.
SignedSingleBytes ==
    (cpc = "decoded" /\ cmode = "varint") =>
        \A t \in ValueTypes :
            csrc = EncValueType(t) => (cdec.err = "nil" /\ cdec.n = 1 /\ ToInt32(cdec.v) = t)

=============================================================================
